---- MODULE Spec2Model ----
(***************************************************************************)
(* The diagram store of the threat-modeling front end                      *)
(* (src/frontend/src/stores/diagramStore.js): the editable graph, its      *)
(* metadata, and the save / load / validate / submit round trips to the    *)
(* backend.  Every asynchronous store operation is a call record whose pc  *)
(* moves from "idle" through its awaits to "resolved" or "rejected".       *)
(* Around it: the auth store and the API client it exports                 *)
(* (src/frontend/src/stores/authStore.js, src/unnamed/part_011), and the   *)
(* view components that send requests of their own.                        *)
(***************************************************************************)
EXTENDS Integers, Sequences, FiniteSets, TLC

VARIABLES
  currentDiagram,     \* diagramStore.js:9   null, or the diagram object
  nodes,              \* diagramStore.js:10
  edges,              \* diagramStore.js:11
  trustBoundaries,    \* diagramStore.js:16
  dataFlows,          \* diagramStore.js:17
  securityControls,   \* diagramStore.js:18
  isValidating,       \* diagramStore.js:21
  validationResults,  \* diagramStore.js:22
  validateCalls,      \* the calls of validateDiagram, one record per call
  saveCalls,          \* the calls of saveDiagram
  loadCalls,          \* the calls of loadDiagram
  submitCalls,        \* the calls of submitForScoring
  created,            \* backend: number of diagrams POST /diagrams/ has created
  submitted,          \* backend: ids of the diagrams a submit request has marked submitted
  scored,             \* backend: ids of the diagrams a scoring request has scored
  serverCopies,       \* backend: the copy it holds of each diagram, by id
  otherWrites,        \* backend: ids of the diagrams another writer has changed
  lastCall,           \* the store action called last, with its id argument
  user,               \* authStore.js:36    null, or the user object
  token,              \* authStore.js:37
  isLoading,          \* authStore.js:38
  localStorage,       \* the browser's local storage: key -> item
  authCalls,          \* the calls of login, register, checkAuth, updateProfile
  apiCalls,           \* requests the other stores send through the API client
  axiosCalls,         \* requests view components send with axios themselves
  groupedResults,     \* ElementPalette.jsx:283  ValidationPanel: the grouped results
  groupedFrom,        \* the validationResults the grouping effect of ValidationPanel last ran on
  enhancedResults,    \* EnhancedValidationPanel.jsx:44  the panel's own validationResults
  enhancedGrouped,    \* EnhancedValidationPanel.jsx:177  the grouped results of the last render
  enhancedFrom,       \* the validationResults EnhancedValidationPanel last rendered
  reactFlowNodes,     \* DiagramBuilder.jsx:80  the nodes on the canvas
  reactFlowEdges,     \* DiagramBuilder.jsx:81  the edges on the canvas
  syncedNodes,        \* the store nodes the effect of DiagramBuilder.jsx:87-89 last ran on
  syncedEdges,        \* the store edges the effect of DiagramBuilder.jsx:91-93 last ran on
  now,                \* Date.now()
  gestureLog,         \* the drop and connect gestures so far: what was created, and when
  location,           \* the path the router is at, as its segments
  scenarios,          \* diagramStore.js:245  the catalog of the scenario store
  scenarioIsLoading,  \* diagramStore.js:249  isLoading of the scenario store
  filters,            \* diagramStore.js:250
  fetchCalls          \* the calls of fetchScenarios so far, in call order

graphVars == <<nodes, edges>>
metaVars == <<trustBoundaries, dataFlows, securityControls>>
validationVars == <<isValidating, validationResults>>
callVars == <<validateCalls, saveCalls, loadCalls, submitCalls>>
serverVars == <<created, submitted, scored, serverCopies, otherWrites>>
\* the diagram store and the backend behind it
diagramStoreVars == <<currentDiagram, graphVars, metaVars, validationVars, callVars, serverVars>>
\* the auth store, the storage it keeps the token in, and the requests of the API client
authVars == <<user, token, isLoading, localStorage, authCalls, apiCalls, axiosCalls>>
\* the state of the two validation panels
panelVars == <<groupedResults, groupedFrom, enhancedResults, enhancedGrouped, enhancedFrom>>
\* the canvas of DiagramBuilder and the clock its gestures read
canvasVars == <<reactFlowNodes, reactFlowEdges, syncedNodes, syncedEdges, now, gestureLog>>
\* the router of App
routerVars == <<location>>
\* the scenario store
scenarioStoreVars == <<scenarios, scenarioIsLoading, filters, fetchCalls>>
\* what no action of the diagram store touches
outsideDiagramStore == <<authVars, panelVars, canvasVars, routerVars, scenarioStoreVars>>
\* what no action of the auth store or of the API client touches
outsideAuthStore == <<diagramStoreVars, panelVars, canvasVars, routerVars, scenarioStoreVars>>
vars == <<currentDiagram, nodes, edges, trustBoundaries, dataFlows, securityControls,
          isValidating, validationResults, validateCalls, saveCalls, loadCalls,
          submitCalls, created, submitted, scored, serverCopies, otherWrites, lastCall,
          authVars, panelVars, canvasVars, routerVars, scenarioStoreVars>>

----------------------------------------------------------------------------
(* Bounds of the model *)

\* longest node list the editing actions build
MaxNodes == 2
\* longest edge list the editing actions build
MaxEdges == 2
\* longest metadata list the editing actions build
MaxMeta == 1
\* calls of one async store operation that may overlap
MaxCalls == 2
\* the last millisecond of the clock
MaxTime == 2
\* longest list of validation results the backend answers with
MaxResults == 3

CallIds == 1..MaxCalls

----------------------------------------------------------------------------
(* Values *)

NodeIds == {"n1", "n2"}
NodeTypes == {"server", "database"}
EdgeIds == {"e1", "e2"}

\* a node as the palette drop builds it, reduced to the fields the store reads
Node == [id : NodeIds, type : NodeTypes]
\* an edge as the connect gesture builds it
Edge == [id : EdgeIds, source : NodeIds, target : NodeIds]

\* the partial objects handed to updateNode: any subset of a node's keys
NodeUpdates == {<<>>} \cup [type : NodeTypes] \cup [id : NodeIds]
\* the partial objects handed to updateEdge
EdgeUpdates == {<<>>} \cup [source : NodeIds] \cup [target : NodeIds]

\* JavaScript null for currentDiagram
Null == [null |-> TRUE]

\* { ...updates, ...obj }: the keys of both, the object's own values winning
Merge_ObjectWins(obj, updates) ==
  [k \in DOMAIN obj \cup DOMAIN updates |->
     IF k \in DOMAIN obj THEN obj[k] ELSE updates[k]]

\* { ...obj, ...updates }: the keys of both, updates winning
Merge(obj, updates) ==
  [k \in DOMAIN obj \cup DOMAIN updates |->
     IF k \in DOMAIN updates THEN updates[k] ELSE obj[k]]

Call(op, id) == [op |-> op, id |-> id]

----------------------------------------------------------------------------
(* Values of the remote operations *)

\* the id a request carries when currentDiagram has none: `${undefined}`
Undefined == "undefined"
\* what an async store operation resolves with when it returns nothing
UndefinedValue == [undefined |-> TRUE]

\* diagrams the backend holds before the session starts
StoredIds == {"d1", "d2"}
\* the ids the backend assigns to the diagrams POST /diagrams/ creates, in order
AssignedIds == <<"d3", "d4", "d5", "d6">>

\* currentDiagram?.id
HasId(diagram) == "id" \in DOMAIN diagram
IdOf(diagram) == IF HasId(diagram) THEN diagram.id ELSE Undefined

\* value || []
OrEmpty(obj, key) == IF key \in DOMAIN obj THEN obj[key] ELSE <<>>

\* the backend's copy of a stored diagram when the session starts, as
\* GET /diagrams/{id} returns it
ServerCopy(diagramId) ==
  IF diagramId = "d1"
  THEN [id |-> "d1",
        diagram_data |->
          [nodes |-> <<[id |-> "n1", type |-> "server"], [id |-> "n2", type |-> "database"]>>,
           edges |-> <<[id |-> "e1", source |-> "n1", target |-> "n2",
                        type |-> "default", data |-> "{}"]>>],
        metadata |-> [trust_boundaries |-> <<"dmz">>, data_flows |-> <<"login">>,
                      security_controls |-> <<"waf">>]]
  ELSE [id |-> diagramId,
        diagram_data |-> [nodes |-> <<[id |-> "n2", type |-> "database"]>>, edges |-> <<>>],
        metadata |-> [trust_boundaries |-> <<"vpc">>]]

\* the lists POST /scoring/validate answers with
ValidationResultLists == {<<>>, <<"missing-auth">>}

\* the score payload POST /scoring/score answers with
ScorePayload(diagramId) == [diagram_id |-> diagramId, total_score |-> 80]

\* a request handed to the API client, and what became of it
Request(method, url, id) == [method |-> method, url |-> url, id |-> id, status |-> "pending"]

\* a call of an async store operation that has not started
IdleCall == [pc |-> "idle", id |-> Undefined, reqs |-> <<>>, toast |-> "none",
             value |-> UndefinedValue]

\* the last request of a call settles
Settle(call, status) ==
  [call EXCEPT !.reqs = [@ EXCEPT ![Len(@)] = [@ EXCEPT !.status = status]]]

----------------------------------------------------------------------------
(* Initial state: the stores as create() builds them *)

\* JavaScript null where a token string is expected: the token of the auth
\* store, the result of localStorage.getItem for a key that has no item, and
\* what `Bearer ${null}` carries
NoToken == "null"
\* the keys of local storage the front end reads
StorageKeys == {"auth-token", "token"}
\* the auth-store operations that send a request
AuthOps == {"login", "register", "checkAuth", "updateProfile"}
\* the other stores that send requests through the API client, here one
ApiCallers == {"diagramStore"}
\* the view components that send requests with axios themselves
AxiosCallers == {"EnhancedValidationPanel"}

InitDiagramStore ==
  /\ currentDiagram = Null
  /\ nodes = <<>>
  /\ edges = <<>>
  /\ trustBoundaries = <<>>
  /\ dataFlows = <<>>
  /\ securityControls = <<>>
  /\ isValidating = FALSE
  /\ validationResults = <<>>
  /\ validateCalls = [c \in CallIds |-> IdleCall]
  /\ saveCalls = [c \in CallIds |-> IdleCall]
  /\ loadCalls = [c \in CallIds |-> IdleCall]
  /\ submitCalls = [c \in CallIds |-> IdleCall]
  /\ created = 0
  /\ submitted = {}
  /\ scored = {}
  /\ serverCopies = [diagramId \in StoredIds |-> ServerCopy(diagramId)]
  /\ otherWrites = {}
  /\ lastCall = Call("create", "")

\* authStore.js:36-38 in a browser that holds nothing of an earlier session
InitAuthStore ==
  /\ user = Null
  /\ token = NoToken
  /\ isLoading = FALSE
  /\ localStorage = [k \in StorageKeys |-> NoToken]
  /\ authCalls = [op \in AuthOps |-> IdleCall]
  /\ apiCalls = [caller \in ApiCallers |-> IdleCall]
  /\ axiosCalls = [caller \in AxiosCallers |-> IdleCall]

\* ElementPalette.jsx:283 useState({}), EnhancedValidationPanel.jsx:44 useState([])
InitPanels ==
  /\ groupedResults = <<>>
  /\ groupedFrom = <<>>
  /\ enhancedResults = <<>>
  /\ enhancedGrouped = <<>>
  /\ enhancedFrom = <<>>

\* DiagramBuilder.jsx:80-81 useNodesState([]), useEdgesState([]); the two sync
\* effects have run on the empty lists of the store
InitCanvas ==
  /\ reactFlowNodes = <<>>
  /\ reactFlowEdges = <<>>
  /\ syncedNodes = <<>>
  /\ syncedEdges = <<>>
  /\ now = 1
  /\ gestureLog = <<>>

\* the application is opened at its root
InitRouter == location = <<>>

\* JavaScript null where the value of a filter is expected
NoFilter == "null"

\* diagramStore.js:245-255
InitScenarioStore ==
  /\ scenarios = <<>>
  /\ scenarioIsLoading = FALSE
  /\ filters = [category |-> NoFilter, difficulty |-> NoFilter, search |-> "", tags |-> <<>>]
  /\ fetchCalls = <<>>

\* what the sessions of one store or component leave as it starts
InitElsewhere == InitRouter /\ InitScenarioStore

Init == InitDiagramStore /\ InitAuthStore /\ InitPanels /\ InitCanvas /\ InitElsewhere

----------------------------------------------------------------------------
(* Synchronous graph actions *)

addNode(node) ==
  /\ Len(nodes) < MaxNodes
  /\ nodes' = Append(nodes, node)
  /\ lastCall' = Call("addNode", node.id)
  /\ UNCHANGED <<currentDiagram, edges, metaVars, validationVars, callVars, serverVars>>
  /\ UNCHANGED outsideDiagramStore

\* an updateNode that adds the node when no node of the list has the id
updateNode_Upsert(nodeId, updates) ==
  /\ nodes' = IF \E i \in 1..Len(nodes) : nodes[i].id = nodeId
              THEN [i \in 1..Len(nodes) |->
                      IF nodes[i].id = nodeId THEN Merge(nodes[i], updates) ELSE nodes[i]]
              ELSE Append(nodes, Merge([id |-> nodeId], updates))
  /\ lastCall' = Call("updateNode", nodeId)
  /\ UNCHANGED <<currentDiagram, edges, metaVars, validationVars, callVars, serverVars>>
  /\ UNCHANGED outsideDiagramStore

updateNode(nodeId, updates) ==
  /\ nodes' = [i \in 1..Len(nodes) |->
               IF nodes[i].id = nodeId THEN Merge(nodes[i], updates) ELSE nodes[i]]
  /\ lastCall' = Call("updateNode", nodeId)
  /\ UNCHANGED <<currentDiagram, edges, metaVars, validationVars, callVars, serverVars>>
  /\ UNCHANGED outsideDiagramStore

\* a filter that forgets the edge's target
KeptEdge_SourceOnly(edge, nodeId) == edge.source # nodeId

\* the edges removeNode keeps
KeptEdge(edge, nodeId) == edge.source # nodeId /\ edge.target # nodeId

\* a removeNode that leaves the edge list alone
removeNode_NoCascade(nodeId) ==
  /\ nodes' = SelectSeq(nodes, LAMBDA node : node.id # nodeId)
  /\ lastCall' = Call("removeNode", nodeId)
  /\ UNCHANGED <<currentDiagram, edges, metaVars, validationVars, callVars, serverVars>>
  /\ UNCHANGED outsideDiagramStore

removeNode(nodeId) ==
  /\ nodes' = SelectSeq(nodes, LAMBDA node : node.id # nodeId)
  /\ edges' = SelectSeq(edges, LAMBDA edge : KeptEdge(edge, nodeId))
  /\ lastCall' = Call("removeNode", nodeId)
  /\ UNCHANGED <<currentDiagram, metaVars, validationVars, callVars, serverVars>>
  /\ UNCHANGED outsideDiagramStore

addEdge(edge) ==
  /\ Len(edges) < MaxEdges
  /\ edges' = Append(edges, edge)
  /\ lastCall' = Call("addEdge", edge.id)
  /\ UNCHANGED <<currentDiagram, nodes, metaVars, validationVars, callVars, serverVars>>
  /\ UNCHANGED outsideDiagramStore

updateEdge(edgeId, updates) ==
  /\ edges' = [i \in 1..Len(edges) |->
               IF edges[i].id = edgeId THEN Merge(edges[i], updates) ELSE edges[i]]
  /\ lastCall' = Call("updateEdge", edgeId)
  /\ UNCHANGED <<currentDiagram, nodes, metaVars, validationVars, callVars, serverVars>>
  /\ UNCHANGED outsideDiagramStore

\* a removeEdge that also drops the edges after the one it removes
removeEdge_Truncates(edgeId) ==
  /\ edges' = IF \E i \in 1..Len(edges) : edges[i].id = edgeId
              THEN SubSeq(edges, 1, (CHOOSE i \in 1..Len(edges) : edges[i].id = edgeId) - 1)
              ELSE edges
  /\ lastCall' = Call("removeEdge", edgeId)
  /\ UNCHANGED <<currentDiagram, nodes, metaVars, validationVars, callVars, serverVars>>
  /\ UNCHANGED outsideDiagramStore

removeEdge(edgeId) ==
  /\ edges' = SelectSeq(edges, LAMBDA edge : edge.id # edgeId)
  /\ lastCall' = Call("removeEdge", edgeId)
  /\ UNCHANGED <<currentDiagram, nodes, metaVars, validationVars, callVars, serverVars>>
  /\ UNCHANGED outsideDiagramStore

\* the ids of the nodes currently in the node list
CurrentNodeIds == {nodes[i].id : i \in 1..Len(nodes)}

\* Editing a diagram: addEdge is called with endpoints that exist at the time
Next ==
  \/ \E node \in Node : addNode(node)
  \/ \E nodeId \in NodeIds, updates \in NodeUpdates : updateNode(nodeId, updates)
  \/ \E nodeId \in NodeIds : removeNode(nodeId)
  \/ \E edge \in Edge :
       /\ edge.source \in CurrentNodeIds
       /\ edge.target \in CurrentNodeIds
       /\ addEdge(edge)
  \/ \E edgeId \in EdgeIds, updates \in EdgeUpdates : updateEdge(edgeId, updates)
  \/ \E edgeId \in EdgeIds : removeEdge(edgeId)

Spec == Init /\ [][Next]_vars

----------------------------------------------------------------------------
(* Other synchronous store actions *)

setCurrentDiagram(diagram) ==
  /\ currentDiagram' = diagram
  /\ lastCall' = Call("setCurrentDiagram", IdOf(diagram))
  /\ UNCHANGED <<graphVars, metaVars, validationVars, callVars, serverVars>>
  /\ UNCHANGED outsideDiagramStore

addTrustBoundary(boundary) ==
  /\ Len(trustBoundaries) < MaxMeta
  /\ trustBoundaries' = Append(trustBoundaries, boundary)
  /\ lastCall' = Call("addTrustBoundary", boundary)
  /\ UNCHANGED <<currentDiagram, graphVars, dataFlows, securityControls, validationVars,
                 callVars, serverVars>>
  /\ UNCHANGED outsideDiagramStore

addDataFlow(flow) ==
  /\ Len(dataFlows) < MaxMeta
  /\ dataFlows' = Append(dataFlows, flow)
  /\ lastCall' = Call("addDataFlow", flow)
  /\ UNCHANGED <<currentDiagram, graphVars, trustBoundaries, securityControls, validationVars,
                 callVars, serverVars>>
  /\ UNCHANGED outsideDiagramStore

addSecurityControl(control) ==
  /\ Len(securityControls) < MaxMeta
  /\ securityControls' = Append(securityControls, control)
  /\ lastCall' = Call("addSecurityControl", control)
  /\ UNCHANGED <<currentDiagram, graphVars, trustBoundaries, dataFlows, validationVars,
                 callVars, serverVars>>
  /\ UNCHANGED outsideDiagramStore

\* selectedNodes and selectedEdges, which clearDiagram also empties, are not modelled
clearDiagram ==
  /\ currentDiagram' = Null
  /\ nodes' = <<>>
  /\ edges' = <<>>
  /\ trustBoundaries' = <<>>
  /\ dataFlows' = <<>>
  /\ securityControls' = <<>>
  /\ validationResults' = <<>>
  /\ lastCall' = Call("clearDiagram", "")
  /\ UNCHANGED <<isValidating, callVars, serverVars>>
  /\ UNCHANGED outsideDiagramStore

----------------------------------------------------------------------------
(* validateDiagram *)

\* a validateDiagram without the guard of line 95
validateDiagram_NoGuard(c) ==
  /\ validateCalls[c].pc = "idle"
  /\ isValidating' = TRUE
  /\ validateCalls' = [validateCalls EXCEPT ![c] =
       [@ EXCEPT !.pc = "await",
                 !.id = IdOf(currentDiagram),
                 !.reqs = <<Request("POST", "/scoring/validate", IdOf(currentDiagram))>>]]
  /\ UNCHANGED <<currentDiagram, graphVars, metaVars, validationResults, saveCalls, loadCalls,
                 submitCalls, serverVars>>
  /\ UNCHANGED outsideDiagramStore
  /\ lastCall' = Call("validateDiagram", "")

\* lines 94-103: the guard, set({ isValidating: true }) and the request
validateDiagram(c) ==
  /\ validateCalls[c].pc = "idle"
  /\ IF currentDiagram = Null
     THEN /\ validateCalls' = [validateCalls EXCEPT ![c] = [@ EXCEPT !.pc = "resolved"]]
          /\ UNCHANGED isValidating
     ELSE /\ isValidating' = TRUE
          /\ validateCalls' = [validateCalls EXCEPT ![c] =
               [@ EXCEPT !.pc = "await",
                         !.id = IdOf(currentDiagram),
                         !.reqs = <<Request("POST", "/scoring/validate", IdOf(currentDiagram))>>]]
  /\ UNCHANGED <<currentDiagram, graphVars, metaVars, validationResults, saveCalls, loadCalls,
                 submitCalls, serverVars>>
  /\ UNCHANGED outsideDiagramStore
  /\ lastCall' = Call("validateDiagram", "")

\* lines 105-108: the response arrives
validateDiagramOk(c, results) ==
  /\ validateCalls[c].pc = "await"
  /\ validationResults' = results
  /\ isValidating' = FALSE
  /\ validateCalls' = [validateCalls EXCEPT ![c] = [Settle(@, "ok") EXCEPT !.pc = "resolved"]]
  /\ UNCHANGED <<currentDiagram, graphVars, metaVars, saveCalls, loadCalls, submitCalls,
                 serverVars, lastCall>>
  /\ UNCHANGED outsideDiagramStore

\* a catch block that also empties validationResults
validateDiagramFail_DropsResults(c) ==
  /\ validateCalls[c].pc = "await"
  /\ isValidating' = FALSE
  /\ validationResults' = <<>>
  /\ validateCalls' = [validateCalls EXCEPT ![c] =
       [Settle(@, "failed") EXCEPT !.pc = "resolved", !.toast = "Validation failed"]]
  /\ UNCHANGED <<currentDiagram, graphVars, metaVars, saveCalls, loadCalls,
                 submitCalls, serverVars, lastCall>>
  /\ UNCHANGED outsideDiagramStore

\* lines 109-112: the request fails; the catch block does not rethrow, so
\* the promise of validateDiagram resolves
validateDiagramFail(c) ==
  /\ validateCalls[c].pc = "await"
  /\ isValidating' = FALSE
  /\ validateCalls' = [validateCalls EXCEPT ![c] =
       [Settle(@, "failed") EXCEPT !.pc = "resolved", !.toast = "Validation failed"]]
  /\ UNCHANGED <<currentDiagram, graphVars, metaVars, validationResults, saveCalls, loadCalls,
                 submitCalls, serverVars, lastCall>>
  /\ UNCHANGED outsideDiagramStore

----------------------------------------------------------------------------
(* saveDiagram.  title and scenario_id travel in the request unread by the  *)
(* store and are left out.                                                  *)

\* lines 124-129: the keys the request keeps of a node, those the node has
NodeOut(node) == [k \in {"id", "type", "position", "data"} \cap DOMAIN node |-> node[k]]
\* lines 130-136
EdgeOut(edge) ==
  [id |-> edge.id, source |-> edge.source, target |-> edge.target,
   type |-> IF "type" \in DOMAIN edge THEN edge.type ELSE "default",
   data |-> IF "data" \in DOMAIN edge THEN edge.data ELSE "{}"]

\* lines 120-143
DiagramData ==
  [diagram_data |-> [nodes |-> [i \in 1..Len(nodes) |-> NodeOut(nodes[i])],
                     edges |-> [i \in 1..Len(edges) |-> EdgeOut(edges[i])]],
   metadata |-> [trust_boundaries |-> trustBoundaries, data_flows |-> dataFlows,
                 security_controls |-> securityControls]]

\* a save request that carries the revision of the copy the client holds
SaveRequest_WithVersion(diagram) ==
  IF diagram # Null /\ HasId(diagram)
  THEN Merge(Request("PUT", "/diagrams/{id}", diagram.id), [version |-> 1])
  ELSE Request("POST", "/diagrams/", Undefined)

\* lines 147-153: update when the diagram has an id, create otherwise
SaveRequest(diagram) ==
  IF diagram # Null /\ HasId(diagram)
  THEN Request("PUT", "/diagrams/{id}", diagram.id)
  ELSE Request("POST", "/diagrams/", Undefined)

\* lines 117-153
saveDiagram(c) ==
  /\ saveCalls[c].pc = "idle"
  /\ saveCalls' = [saveCalls EXCEPT ![c] =
       [@ EXCEPT !.pc = "await",
                 !.value = DiagramData,
                 !.reqs = <<SaveRequest(currentDiagram)>>]]
  /\ UNCHANGED <<currentDiagram, graphVars, metaVars, validationVars, validateCalls, loadCalls,
                 submitCalls, serverVars>>
  /\ UNCHANGED outsideDiagramStore
  /\ lastCall' = Call("saveDiagram", "")

\* the backend's canonical representation of what a save request stored
SaveResponse(call) ==
  [id |-> IF call.reqs[1].method = "POST" THEN AssignedIds[created + 1] ELSE call.reqs[1].id,
   diagram_data |-> call.value.diagram_data,
   metadata |-> call.value.metadata]

\* the copies the backend holds once it has stored what a save request
\* carries: the body replaces the copy of that id, or becomes a new copy
StoredCopies(call) ==
  LET diagram == SaveResponse(call) IN
    [diagramId \in DOMAIN serverCopies \cup {diagram.id} |->
       IF diagramId = diagram.id THEN diagram ELSE serverCopies[diagramId]]

\* lines 155-157: the backend stored the diagram and answers
saveDiagramOk(c) ==
  /\ saveCalls[c].pc = "await"
  /\ created < Len(AssignedIds)
  /\ created' = IF saveCalls[c].reqs[1].method = "POST" THEN created + 1 ELSE created
  /\ serverCopies' = StoredCopies(saveCalls[c])
  /\ currentDiagram' = SaveResponse(saveCalls[c])
  /\ saveCalls' = [saveCalls EXCEPT ![c] =
       [Settle(@, "ok") EXCEPT !.pc = "resolved",
                               !.value = SaveResponse(saveCalls[c]),
                               !.toast = "Diagram saved successfully"]]
  /\ UNCHANGED <<graphVars, metaVars, validationVars, validateCalls, loadCalls, submitCalls,
                 submitted, scored, otherWrites, lastCall>>
  /\ UNCHANGED outsideDiagramStore

\* a save that sends its request again when it failed
saveDiagramFail_Retries(c) ==
  /\ saveCalls[c].pc = "await"
  /\ saveCalls' = [saveCalls EXCEPT ![c] =
       [Settle(@, "failed") EXCEPT
          !.reqs = Append(Settle(saveCalls[c], "failed").reqs, SaveRequest(currentDiagram))]]
  /\ UNCHANGED <<currentDiagram, graphVars, metaVars, validationVars, validateCalls, loadCalls,
                 submitCalls, serverVars, lastCall>>
  /\ UNCHANGED outsideDiagramStore

\* lines 158-161: the request fails
saveDiagramFail(c) ==
  /\ saveCalls[c].pc = "await"
  /\ saveCalls' = [saveCalls EXCEPT ![c] =
       [Settle(@, "failed") EXCEPT !.pc = "rejected", !.value = UndefinedValue,
                                   !.toast = "Failed to save diagram"]]
  /\ UNCHANGED <<currentDiagram, graphVars, metaVars, validationVars, validateCalls, loadCalls,
                 submitCalls, serverVars, lastCall>>
  /\ UNCHANGED outsideDiagramStore

----------------------------------------------------------------------------
(* loadDiagram *)

\* lines 166-169
loadDiagram(c, diagramId) ==
  /\ loadCalls[c].pc = "idle"
  /\ loadCalls' = [loadCalls EXCEPT ![c] =
       [@ EXCEPT !.pc = "await", !.id = diagramId,
                 !.reqs = <<Request("GET", "/diagrams/{id}", diagramId)>>]]
  /\ UNCHANGED <<currentDiagram, graphVars, metaVars, validationVars, validateCalls, saveCalls,
                 submitCalls, serverVars>>
  /\ UNCHANGED outsideDiagramStore
  /\ lastCall' = Call("loadDiagram", diagramId)

\* lines 172-179: the state set() installs from the response
LoadedNodes(diagram) == diagram.diagram_data.nodes
LoadedEdges(diagram) == diagram.diagram_data.edges
LoadedTrustBoundaries(diagram) == OrEmpty(diagram.metadata, "trust_boundaries")
\* a fallback to the store's list in place of []
LoadedDataFlows_KeepPrior(diagram) ==
  IF "data_flows" \in DOMAIN diagram.metadata THEN diagram.metadata.data_flows ELSE dataFlows

LoadedDataFlows(diagram) == OrEmpty(diagram.metadata, "data_flows")
LoadedSecurityControls(diagram) == OrEmpty(diagram.metadata, "security_controls")

\* lines 170-181: the response arrives
loadDiagramOk(c) ==
  /\ loadCalls[c].pc = "await"
  /\ LET diagram == serverCopies[loadCalls[c].id] IN
       /\ currentDiagram' = diagram
       /\ nodes' = LoadedNodes(diagram)
       /\ edges' = LoadedEdges(diagram)
       /\ trustBoundaries' = LoadedTrustBoundaries(diagram)
       /\ dataFlows' = LoadedDataFlows(diagram)
       /\ securityControls' = LoadedSecurityControls(diagram)
       /\ loadCalls' = [loadCalls EXCEPT ![c] =
            [Settle(@, "ok") EXCEPT !.pc = "resolved", !.value = diagram]]
  /\ UNCHANGED <<validationVars, validateCalls, saveCalls, submitCalls, serverVars, lastCall>>
  /\ UNCHANGED outsideDiagramStore

\* lines 182-185: the request fails
loadDiagramFail(c) ==
  /\ loadCalls[c].pc = "await"
  /\ loadCalls' = [loadCalls EXCEPT ![c] =
       [Settle(@, "failed") EXCEPT !.pc = "rejected", !.toast = "Failed to load diagram"]]
  /\ UNCHANGED <<currentDiagram, graphVars, metaVars, validationVars, validateCalls, saveCalls,
                 submitCalls, serverVars, lastCall>>
  /\ UNCHANGED outsideDiagramStore

----------------------------------------------------------------------------
(* submitForScoring.  time_spent travels in the request unread by the store *)
(* and is left out.                                                         *)

\* lines 190-197: the guard and the submit request; call.id is the id of the
\* currentDiagram the call captured
submitForScoring(c) ==
  /\ submitCalls[c].pc = "idle"
  /\ IF currentDiagram = Null
     THEN submitCalls' = [submitCalls EXCEPT ![c] = [@ EXCEPT !.pc = "resolved"]]
     ELSE submitCalls' = [submitCalls EXCEPT ![c] =
            [@ EXCEPT !.pc = "awaitSubmit",
                      !.id = IdOf(currentDiagram),
                      !.reqs = <<Request("POST", "/diagrams/{id}/submit", IdOf(currentDiagram))>>]]
  /\ UNCHANGED <<currentDiagram, graphVars, metaVars, validationVars, validateCalls, saveCalls,
                 loadCalls, serverVars>>
  /\ UNCHANGED outsideDiagramStore
  /\ lastCall' = Call("submitForScoring", "")

\* a scoring request that reads the store's currentDiagram again
ScoreRequest_CurrentDiagram(call) == Request("POST", "/scoring/score", IdOf(currentDiagram))

\* lines 200-205: the scoring request, for the diagram the call captured
ScoreRequest(call) == Request("POST", "/scoring/score", call.id)

\* lines 197-205: the backend marked the diagram submitted and answered, the
\* scoring request goes out
submitForScoringSubmitted(c) ==
  /\ submitCalls[c].pc = "awaitSubmit"
  /\ submitted' = submitted \cup {submitCalls[c].reqs[1].id}
  /\ submitCalls' = [submitCalls EXCEPT ![c] =
       [Settle(@, "ok") EXCEPT !.pc = "awaitScore",
                               !.reqs = Append(Settle(submitCalls[c], "ok").reqs,
                                               ScoreRequest(submitCalls[c]))]]
  /\ UNCHANGED <<currentDiagram, graphVars, metaVars, validationVars, validateCalls, saveCalls,
                 loadCalls, created, scored, serverCopies, otherWrites, lastCall>>
  /\ UNCHANGED outsideDiagramStore

\* lines 207-208: the backend scored the diagram and answered
submitForScoringScored(c) ==
  /\ submitCalls[c].pc = "awaitScore"
  /\ scored' = scored \cup {submitCalls[c].reqs[2].id}
  /\ submitCalls' = [submitCalls EXCEPT ![c] =
       [Settle(@, "ok") EXCEPT !.pc = "resolved",
                               !.value = ScorePayload(submitCalls[c].reqs[2].id),
                               !.toast = "Diagram submitted and scored!"]]
  /\ UNCHANGED <<currentDiagram, graphVars, metaVars, validationVars, validateCalls, saveCalls,
                 loadCalls, created, submitted, serverCopies, otherWrites, lastCall>>
  /\ UNCHANGED outsideDiagramStore

\* a catch block that takes the submission back when the scoring failed
submitForScoringFail_Withdraws(c) ==
  /\ submitCalls[c].pc \in {"awaitSubmit", "awaitScore"}
  /\ submitCalls' = [submitCalls EXCEPT ![c] =
       [Settle(@, "failed") EXCEPT
          !.pc = "rejected", !.toast = "Failed to submit diagram",
          !.reqs = IF submitCalls[c].pc = "awaitScore"
                   THEN Append(Settle(submitCalls[c], "failed").reqs,
                               Request("DELETE", "/diagrams/{id}/submit", submitCalls[c].id))
                   ELSE Settle(submitCalls[c], "failed").reqs]]
  /\ UNCHANGED <<currentDiagram, graphVars, metaVars, validationVars, validateCalls, saveCalls,
                 loadCalls, serverVars, lastCall>>
  /\ UNCHANGED outsideDiagramStore

\* lines 209-212: either request fails
submitForScoringFail(c) ==
  /\ submitCalls[c].pc \in {"awaitSubmit", "awaitScore"}
  /\ submitCalls' = [submitCalls EXCEPT ![c] =
       [Settle(@, "failed") EXCEPT !.pc = "rejected", !.toast = "Failed to submit diagram"]]
  /\ UNCHANGED <<currentDiagram, graphVars, metaVars, validationVars, validateCalls, saveCalls,
                 loadCalls, serverVars, lastCall>>
  /\ UNCHANGED outsideDiagramStore

----------------------------------------------------------------------------
(* Saving: a diagram is edited and saved, the saves may overlap *)

NextSave ==
  \/ \E node \in Node : addNode(node)
  \/ \E c \in CallIds : saveDiagram(c)
  \/ \E c \in CallIds : saveDiagramOk(c)
  \/ \E c \in CallIds : saveDiagramFail(c)

SpecSave == Init /\ [][NextSave]_vars

----------------------------------------------------------------------------
(* Loading and clearing: diagram A is loaded, edited, cleared, and diagram B *)
(* is loaded; the two loads may overlap each other, the edits and a         *)
(* validation                                                               *)

\* the node the palette drops in this scenario
DroppedNode == [id |-> "n1", type |-> "server"]
\* the edge the connect gesture draws in this scenario
DrawnEdge == [id |-> "e2", source |-> "n1", target |-> "n1"]

NextLoad ==
  \/ addNode(DroppedNode)
  \/ addEdge(DrawnEdge)
  \/ addTrustBoundary("internet")
  \/ addDataFlow("upload")
  \/ addSecurityControl("tls")
  \/ clearDiagram
  \/ loadDiagram(1, "d1")
  \/ loadDiagram(2, "d2")
  \/ \E c \in {1, 2} : loadDiagramOk(c)
  \/ \E c \in {1, 2} : loadDiagramFail(c)
  \/ validateDiagram(1)
  \/ \E results \in ValidationResultLists : validateDiagramOk(1, results)
  \/ validateDiagramFail(1)

SpecLoad == Init /\ [][NextLoad]_vars

----------------------------------------------------------------------------
(* Remote operations: one call of every async operation of the store        *)

\* the diagrams handed to setCurrentDiagram: none, a draft that was never
\* saved, or a stored one
GivenDiagrams == {Null, [title |-> "Draft"]} \cup {ServerCopy(d) : d \in StoredIds}

NextRemote ==
  \/ \E diagram \in GivenDiagrams : setCurrentDiagram(diagram)
  \/ validateDiagram(1)
  \/ \E results \in ValidationResultLists : validateDiagramOk(1, results)
  \/ validateDiagramFail(1)
  \/ saveDiagram(1)
  \/ saveDiagramOk(1)
  \/ saveDiagramFail(1)
  \/ \E diagramId \in StoredIds : loadDiagram(1, diagramId)
  \/ loadDiagramOk(1)
  \/ loadDiagramFail(1)
  \/ submitForScoring(1)
  \/ submitForScoringSubmitted(1)
  \/ submitForScoringScored(1)
  \/ submitForScoringFail(1)

SpecRemote == Init /\ [][NextRemote]_vars

----------------------------------------------------------------------------
(* Validating: the current diagram is set, replaced and cleared while       *)
(* validations, which may overlap, are in flight                            *)

NextValidate ==
  \/ \E diagram \in GivenDiagrams : setCurrentDiagram(diagram)
  \/ clearDiagram
  \/ \E c \in CallIds : validateDiagram(c)
  \/ \E c \in CallIds, results \in ValidationResultLists : validateDiagramOk(c, results)
  \/ \E c \in CallIds : validateDiagramFail(c)

SpecValidate == Init /\ [][NextValidate]_vars

----------------------------------------------------------------------------
(* The API client and the auth store.  authStore.js and part_011 hold the   *)
(* same store; they differ in checkAuth, which asks the backend in part_011 *)
(* and installs a fixed user in authStore.js.                               *)

\* the access tokens the backend issues
Tokens == {"t1", "t2"}
\* the user object the backend answers with
BackendUser == [id |-> "u1"]
\* the user object a profile update answers with
UpdatedUser == [id |-> "u1", bio |-> "edited"]
\* authStore.js:92-112
mockUser == [id |-> "test123"]
\* a list of validation results with one finding
OneFinding == <<[message |-> 1, severity |-> "error", category |-> "security"]>>
\* how a request can fail: with status 401, or in any other way
ErrorStatuses == {"401", "failed"}

\* `Bearer ${token}`
Bearer(credentials) == <<"Bearer", credentials>>

\* authStore.js:13-19: the request interceptor
Intercept(request) ==
  IF localStorage["auth-token"] # NoToken
  THEN Merge(request, [Authorization |-> Bearer(localStorage["auth-token"])])
  ELSE request

\* a response interceptor whose logout leaves the stored token in place
ResponseError_KeepsStoredToken(status) ==
  IF status = "401"
  THEN /\ user' = Null
       /\ token' = NoToken
       /\ lastCall' = Call("logout", "")
       /\ UNCHANGED localStorage
  ELSE UNCHANGED <<localStorage, user, token, lastCall>>

\* authStore.js:22-31: the response interceptor, on an error response; the
\* logout it calls is lines 78-82
ResponseError(status) ==
  IF status = "401"
  THEN /\ localStorage' = [localStorage EXCEPT !["auth-token"] = NoToken]
       /\ user' = Null
       /\ token' = NoToken
       /\ lastCall' = Call("logout", "")
  ELSE UNCHANGED <<localStorage, user, token, lastCall>>

\* authStore.js:40-43 and 59-62: login and register differ in the endpoint
Authenticate(op, url) ==
  /\ authCalls[op].pc = "idle"
  /\ isLoading' = TRUE
  /\ authCalls' = [authCalls EXCEPT ![op] =
       [@ EXCEPT !.pc = "await", !.reqs = <<Intercept(Request("POST", url, Undefined))>>]]
  /\ lastCall' = Call(op, "")
  /\ UNCHANGED <<user, token, localStorage, apiCalls, axiosCalls, outsideAuthStore>>

\* authStore.js:44-50 and 63-69: the backend answers with a user and a token
AuthenticateOk(op, accessToken, toast) ==
  /\ authCalls[op].pc = "await"
  /\ localStorage' = [localStorage EXCEPT !["auth-token"] = accessToken]
  /\ user' = BackendUser
  /\ token' = accessToken
  /\ isLoading' = FALSE
  /\ authCalls' = [authCalls EXCEPT ![op] =
       [Settle(@, "ok") EXCEPT !.pc = "resolved", !.value = [success |-> TRUE],
                               !.toast = toast]]
  /\ UNCHANGED <<apiCalls, axiosCalls, outsideAuthStore, lastCall>>

\* authStore.js:51-56 and 70-75: the request fails; the operation resolves
\* with success false
AuthenticateFail(op, status, toast) ==
  /\ authCalls[op].pc = "await"
  /\ ResponseError(status)
  /\ isLoading' = FALSE
  /\ authCalls' = [authCalls EXCEPT ![op] =
       [Settle(@, status) EXCEPT !.pc = "resolved", !.value = [success |-> FALSE],
                                 !.toast = toast]]
  /\ UNCHANGED <<apiCalls, axiosCalls, outsideAuthStore>>

\* authStore.js:40-57
login == Authenticate("login", "/auth/login")
loginOk(accessToken) == AuthenticateOk("login", accessToken, "Welcome back!")
loginFail(status) == AuthenticateFail("login", status, "Login failed")

\* authStore.js:59-76
register == Authenticate("register", "/auth/register")
registerOk(accessToken) ==
  AuthenticateOk("register", accessToken, "Account created successfully!")
registerFail(status) == AuthenticateFail("register", status, "Registration failed")

\* authStore.js:78-82
logout ==
  /\ localStorage' = [localStorage EXCEPT !["auth-token"] = NoToken]
  /\ user' = Null
  /\ token' = NoToken
  /\ lastCall' = Call("logout", "")
  /\ UNCHANGED <<isLoading, authCalls, apiCalls, axiosCalls, outsideAuthStore>>

\* part_011:84-92: without a stored token nothing is sent; call.id is the
\* token the call read from storage
checkAuth ==
  /\ authCalls["checkAuth"].pc = "idle"
  /\ IF localStorage["auth-token"] = NoToken
     THEN /\ isLoading' = FALSE
          /\ authCalls' = [authCalls EXCEPT !["checkAuth"] =
               [@ EXCEPT !.pc = "resolved", !.id = NoToken]]
     ELSE /\ isLoading' = TRUE
          /\ authCalls' = [authCalls EXCEPT !["checkAuth"] =
               [@ EXCEPT !.pc = "await", !.id = localStorage["auth-token"],
                         !.reqs = <<Intercept(Request("GET", "/auth/verify", Undefined))>>]]
  /\ lastCall' = Call("checkAuth", "")
  /\ UNCHANGED <<user, token, localStorage, apiCalls, axiosCalls, outsideAuthStore>>

\* part_011:92-93: the backend verified the token
checkAuthOk ==
  /\ authCalls["checkAuth"].pc = "await"
  /\ user' = BackendUser
  /\ token' = authCalls["checkAuth"].id
  /\ isLoading' = FALSE
  /\ authCalls' = [authCalls EXCEPT !["checkAuth"] = [Settle(@, "ok") EXCEPT !.pc = "resolved"]]
  /\ UNCHANGED <<localStorage, apiCalls, axiosCalls, outsideAuthStore, lastCall>>

\* part_011:94-97: the verification fails; after the response interceptor the
\* catch block clears the session itself
checkAuthFail(status) ==
  /\ authCalls["checkAuth"].pc = "await"
  /\ localStorage' = [localStorage EXCEPT !["auth-token"] = NoToken]
  /\ user' = Null
  /\ token' = NoToken
  /\ lastCall' = IF status = "401" THEN Call("logout", "") ELSE lastCall
  /\ isLoading' = FALSE
  /\ authCalls' = [authCalls EXCEPT !["checkAuth"] =
       [Settle(@, status) EXCEPT !.pc = "resolved"]]
  /\ UNCHANGED <<apiCalls, axiosCalls, outsideAuthStore>>

\* authStore.js:84-120: the checkAuth that sends nothing; it has no await, so
\* the whole body runs in the call
checkAuthMock ==
  /\ authCalls["checkAuth"].pc = "idle"
  /\ IF localStorage["auth-token"] = NoToken
     THEN UNCHANGED <<user, token>>
     ELSE /\ user' = mockUser
          /\ token' = localStorage["auth-token"]
  /\ isLoading' = FALSE
  /\ authCalls' = [authCalls EXCEPT !["checkAuth"] =
       [@ EXCEPT !.pc = "resolved", !.id = localStorage["auth-token"]]]
  /\ lastCall' = Call("checkAuth", "")
  /\ UNCHANGED <<localStorage, apiCalls, axiosCalls, outsideAuthStore>>

\* authStore.js:122-124
updateProfile ==
  /\ authCalls["updateProfile"].pc = "idle"
  /\ authCalls' = [authCalls EXCEPT !["updateProfile"] =
       [@ EXCEPT !.pc = "await",
                 !.reqs = <<Intercept(Request("PUT", "/auth/profile", Undefined))>>]]
  /\ lastCall' = Call("updateProfile", "")
  /\ UNCHANGED <<user, token, isLoading, localStorage, apiCalls, axiosCalls, outsideAuthStore>>

\* authStore.js:124-127
updateProfileOk ==
  /\ authCalls["updateProfile"].pc = "await"
  /\ user' = UpdatedUser
  /\ authCalls' = [authCalls EXCEPT !["updateProfile"] =
       [Settle(@, "ok") EXCEPT !.pc = "resolved", !.value = [success |-> TRUE],
                               !.toast = "Profile updated successfully"]]
  /\ UNCHANGED <<token, isLoading, localStorage, apiCalls, axiosCalls, outsideAuthStore,
                 lastCall>>

\* authStore.js:128-132
updateProfileFail(status) ==
  /\ authCalls["updateProfile"].pc = "await"
  /\ ResponseError(status)
  /\ authCalls' = [authCalls EXCEPT !["updateProfile"] =
       [Settle(@, status) EXCEPT !.pc = "resolved", !.value = [success |-> FALSE],
                                 !.toast = "Update failed"]]
  /\ UNCHANGED <<isLoading, apiCalls, axiosCalls, outsideAuthStore>>

----------------------------------------------------------------------------
(* Requests of the other stores, through the API client the auth store      *)
(* exports, and of view components, with axios itself.  A record of         *)
(* apiCalls or axiosCalls is the promise the client returned: "rejected"    *)
(* is the error handed to the code that awaits it.                          *)

\* diagramStore.js:169
ApiRequestOf(caller) == Request("GET", "/diagrams/{id}", "d1")

\* diagramStore.js:166-169: api.get(...) sends through the request interceptor
apiRequest(caller) ==
  /\ apiCalls[caller].pc = "idle"
  /\ apiCalls' = [apiCalls EXCEPT ![caller] =
       [@ EXCEPT !.pc = "await", !.reqs = <<Intercept(ApiRequestOf(caller))>>]]
  /\ lastCall' = Call(caller, "")
  /\ UNCHANGED <<user, token, isLoading, localStorage, authCalls, axiosCalls, outsideAuthStore>>

\* authStore.js:23: a response passes through
apiResponse(caller) ==
  /\ apiCalls[caller].pc = "await"
  /\ apiCalls' = [apiCalls EXCEPT ![caller] = [Settle(@, "ok") EXCEPT !.pc = "resolved"]]
  /\ UNCHANGED <<user, token, isLoading, localStorage, authCalls, axiosCalls, outsideAuthStore,
                 lastCall>>

\* authStore.js:24-30: an error passes through the response interceptor
apiResponseError(caller, status) ==
  /\ apiCalls[caller].pc = "await"
  /\ ResponseError(status)
  /\ apiCalls' = [apiCalls EXCEPT ![caller] = [Settle(@, status) EXCEPT !.pc = "rejected"]]
  /\ UNCHANGED <<isLoading, authCalls, axiosCalls, outsideAuthStore>>

\* EnhancedValidationPanel.jsx:55-66: the panel reads the token itself and
\* sends with axios, past both interceptors
axiosRequest(caller) ==
  /\ axiosCalls[caller].pc = "idle"
  /\ axiosCalls' = [axiosCalls EXCEPT ![caller] =
       [@ EXCEPT !.pc = "await",
                 !.reqs = <<Merge(Request("POST", "/api/scoring/validate", "d1"),
                                  [Authorization |-> Bearer(localStorage["token"])])>>]]
  /\ UNCHANGED <<user, token, isLoading, localStorage, authCalls, apiCalls, outsideAuthStore,
                 lastCall>>

\* EnhancedValidationPanel.jsx:68-78: the panel's own try / catch; the panel
\* keeps the results of the response, and none after a failure
axiosResponse(caller, status, results) ==
  /\ axiosCalls[caller].pc = "await"
  /\ axiosCalls' = [axiosCalls EXCEPT ![caller] =
       [Settle(@, status) EXCEPT !.pc = IF status = "ok" THEN "resolved" ELSE "rejected"]]
  /\ enhancedResults' = IF status = "ok" THEN results ELSE <<>>
  /\ UNCHANGED <<user, token, isLoading, localStorage, authCalls, apiCalls, diagramStoreVars,
                 groupedResults, groupedFrom, enhancedGrouped, enhancedFrom, canvasVars,
                 lastCall>>
  /\ UNCHANGED <<routerVars, scenarioStoreVars>>

----------------------------------------------------------------------------
(* A session of the auth store of part_011: the browser may hold the token  *)
(* and the persisted user of an earlier session                             *)

\* authStore.js:138-144: persist restores user and token; line 46 left the
\* token under 'auth-token'
InitReturning ==
  /\ user = BackendUser
  /\ token = "t1"
  /\ isLoading = FALSE
  /\ localStorage = [k \in StorageKeys |-> IF k = "auth-token" THEN "t1" ELSE NoToken]
  /\ authCalls = [op \in AuthOps |-> IdleCall]
  /\ apiCalls = [caller \in ApiCallers |-> IdleCall]
  /\ axiosCalls = [caller \in AxiosCallers |-> IdleCall]

InitSession ==
  /\ InitDiagramStore
  /\ InitAuthStore \/ InitReturning
  /\ InitPanels
  /\ InitCanvas
  /\ InitElsewhere

\* Requests in a session: the auth store logs in and out and checks the
\* stored token while a store and a view component send requests
NextAuth ==
  \/ login
  \/ loginOk("t1")
  \/ \E status \in ErrorStatuses : loginFail(status)
  \/ logout
  \/ checkAuth
  \/ checkAuthOk
  \/ \E status \in ErrorStatuses : checkAuthFail(status)
  \/ \E caller \in ApiCallers : apiRequest(caller)
  \/ \E caller \in ApiCallers : apiResponse(caller)
  \/ \E caller \in ApiCallers, status \in ErrorStatuses : apiResponseError(caller, status)
  \/ \E caller \in AxiosCallers : axiosRequest(caller)
  \/ \E caller \in AxiosCallers, status \in {"ok", "failed", "401"} :
       axiosResponse(caller, status, OneFinding)

SpecAuth == InitSession /\ [][NextAuth]_vars

----------------------------------------------------------------------------
(* Every remote operation of the two stores, one call of each.  Neither    *)
(* store reads the state of the other, so what a call of one store sends   *)
(* does not depend on how far the calls of the other store have come: a    *)
(* session here runs the remote operations of one store.                   *)

\* no remote operation of the diagram store was called
DiagramStoreUntouched ==
  /\ currentDiagram = Null
  /\ validateCalls[1].pc = "idle"
  /\ saveCalls[1].pc = "idle"
  /\ loadCalls[1].pc = "idle"
  /\ submitCalls[1].pc = "idle"

\* no remote operation of the auth store was called
AuthStoreUntouched == \A op \in AuthOps : authCalls[op].pc = "idle"

NextRequests ==
  \/ AuthStoreUntouched /\ NextRemote
  \/ DiagramStoreUntouched /\ login
  \/ DiagramStoreUntouched /\ \E accessToken \in Tokens : loginOk(accessToken)
  \/ DiagramStoreUntouched /\ \E status \in ErrorStatuses : loginFail(status)
  \/ DiagramStoreUntouched /\ register
  \/ DiagramStoreUntouched /\ \E accessToken \in Tokens : registerOk(accessToken)
  \/ DiagramStoreUntouched /\ \E status \in ErrorStatuses : registerFail(status)
  \/ DiagramStoreUntouched /\ checkAuth
  \/ DiagramStoreUntouched /\ checkAuthOk
  \/ DiagramStoreUntouched /\ \E status \in ErrorStatuses : checkAuthFail(status)
  \/ DiagramStoreUntouched /\ updateProfile
  \/ DiagramStoreUntouched /\ updateProfileOk
  \/ DiagramStoreUntouched /\ \E status \in ErrorStatuses : updateProfileFail(status)

SpecRequests == Init /\ [][NextRequests]_vars

----------------------------------------------------------------------------
(* Grouping validation results by category, in the two panels that show    *)
(* them: ValidationPanel (ElementPalette.jsx:274-345), which DiagramBuilder *)
(* mounts and which reads the results of the diagram store, and            *)
(* EnhancedValidationPanel, which fetches its own.                         *)

Severities == {"error", "warning", "info"}
Categories == {"security", "architecture"}

\* what the backend reports of one finding; the category may be missing
Findings == [severity : Severities, category : Categories] \cup [severity : Severities]

\* the lists of validation results: the message tells the results of a list apart
ResultLists ==
  UNION {{[i \in 1..n |-> Merge(findings[i], [message |-> i])] :
            findings \in [1..n -> Findings]} : n \in 0..MaxResults}

\* EnhancedValidationPanel.jsx:149
severityOrder == [error |-> 0, warning |-> 1, info |-> 2]

\* EnhancedValidationPanel.jsx:148-151: the comparator of the sort
CompareSeverity(a, b) == severityOrder[a.severity] - severityOrder[b.severity]

\* Array.prototype.sort with that comparator: a stable sort, as an insertion
\* of each element behind the elements that do not compare greater
RECURSIVE SortBySeverity(_)
SortBySeverity(list) ==
  IF list = <<>>
  THEN <<>>
  ELSE LET sorted == SortBySeverity(SubSeq(list, 1, Len(list) - 1))
           last == list[Len(list)]
       IN SelectSeq(sorted, LAMBDA r : CompareSeverity(r, last) <= 0)
            \o <<last>>
            \o SelectSeq(sorted, LAMBDA r : CompareSeverity(r, last) > 0)

\* EnhancedValidationPanel.jsx:139: result.category || 'other'
CategoryOrOther(result) ==
  IF "category" \in DOMAIN result THEN result.category ELSE "other"

\* EnhancedValidationPanel.jsx:137-156: reduce into one array per category,
\* in the order of the list, then sort each array
groupResultsByCategory(results) ==
  [category \in {CategoryOrOther(results[i]) : i \in 1..Len(results)} |->
     SortBySeverity(SelectSeq(results, LAMBDA r : CategoryOrOther(r) = category))]

\* ElementPalette.jsx:288-291: acc[result.category], the key of a result
\* without category being the string of undefined
CategoryKey(result) ==
  IF "category" \in DOMAIN result THEN result.category ELSE Undefined

\* ElementPalette.jsx:287-293: reduce into one array per key, in the order of
\* the list
GroupedByCategoryKey(results) ==
  [category \in {CategoryKey(results[i]) : i \in 1..Len(results)} |->
     SelectSeq(results, LAMBDA r : CategoryKey(r) = category)]

\* ElementPalette.jsx:285-295: the effect of ValidationPanel, run after the
\* validationResults of the store changed
groupingEffect ==
  /\ groupedFrom # validationResults
  /\ groupedResults' = GroupedByCategoryKey(validationResults)
  /\ groupedFrom' = validationResults
  /\ UNCHANGED <<diagramStoreVars, authVars, enhancedResults, enhancedGrouped, enhancedFrom,
                 canvasVars, lastCall>>
  /\ UNCHANGED <<routerVars, scenarioStoreVars>>

\* EnhancedValidationPanel.jsx:177: the render after the panel's
\* validationResults changed
renderEnhancedPanel ==
  /\ enhancedFrom # enhancedResults
  /\ enhancedGrouped' = groupResultsByCategory(enhancedResults)
  /\ enhancedFrom' = enhancedResults
  /\ UNCHANGED <<diagramStoreVars, authVars, groupedResults, groupedFrom, enhancedResults,
                 canvasVars, lastCall>>
  /\ UNCHANGED <<routerVars, scenarioStoreVars>>

\* the backend has answered a validation of diagram d1 with some list of
\* results, which the store (diagramStore.js:106) and EnhancedValidationPanel
\* (line 68) hold; neither panel has grouped it yet
InitGroup ==
  /\ currentDiagram = ServerCopy("d1")
  /\ nodes = <<>>
  /\ edges = <<>>
  /\ trustBoundaries = <<>>
  /\ dataFlows = <<>>
  /\ securityControls = <<>>
  /\ isValidating = FALSE
  /\ validationResults \in ResultLists
  /\ enhancedResults = validationResults
  /\ validateCalls = [c \in CallIds |-> IdleCall]
  /\ saveCalls = [c \in CallIds |-> IdleCall]
  /\ loadCalls = [c \in CallIds |-> IdleCall]
  /\ submitCalls = [c \in CallIds |-> IdleCall]
  /\ created = 0
  /\ submitted = {}
  /\ scored = {}
  /\ serverCopies = [diagramId \in StoredIds |-> ServerCopy(diagramId)]
  /\ otherWrites = {}
  /\ lastCall = Call("validateDiagram", "")
  /\ InitAuthStore
  /\ groupedResults = <<>>
  /\ groupedFrom = <<>>
  /\ enhancedGrouped = <<>>
  /\ enhancedFrom = <<>>
  /\ InitCanvas
  /\ InitElsewhere

NextGroup ==
  \/ groupingEffect
  \/ renderEnhancedPanel

SpecGroup == InitGroup /\ [][NextGroup]_vars

----------------------------------------------------------------------------
(* A session of the auth store of authStore.js, whose checkAuth sends       *)
(* nothing                                                                  *)

NextAuthMock ==
  \/ login
  \/ \E accessToken \in Tokens : loginOk(accessToken)
  \/ \E status \in ErrorStatuses : loginFail(status)
  \/ logout
  \/ checkAuthMock
  \/ updateProfile
  \/ updateProfileOk
  \/ \E status \in ErrorStatuses : updateProfileFail(status)

SpecAuthMock == InitSession /\ [][NextAuthMock]_vars

----------------------------------------------------------------------------
(* The canvas of DiagramBuilder: the nodes and edges React Flow shows, the  *)
(* gestures that create and move them, and the effects that copy the lists  *)
(* of the store onto the canvas.  React runs the pending effects before the *)
(* next gesture is handled.  The label a dropped node carries is derived    *)
(* from its type and is left out.                                           *)

\* canvas positions, as reactFlowInstance.project returns them
Positions == {[x |-> 0, y |-> 0], [x |-> 120, y |-> 0]}

\* an id that leaves the type out
NodeId_TimestampOnly(type, timestamp) == <<"node", timestamp>>

\* DiagramBuilder.jsx:146: `${type}-${Date.now()}`
NodeId(type, timestamp) == <<type, timestamp>>

\* DiagramBuilder.jsx:116: `edge-${Date.now()}`
EdgeId(timestamp) == <<"edge", timestamp>>

\* no sync effect is pending
EffectsFlushed == nodes = syncedNodes /\ edges = syncedEdges

\* a millisecond passes
tick ==
  /\ now < MaxTime
  /\ now' = now + 1
  /\ UNCHANGED <<diagramStoreVars, authVars, panelVars, reactFlowNodes, reactFlowEdges,
                 syncedNodes, syncedEdges, gestureLog, lastCall>>
  /\ UNCHANGED <<routerVars, scenarioStoreVars>>

\* DiagramBuilder.jsx:129-159: a palette element is dropped on the canvas;
\* setNodes is diagramStore.js:33
onDrop(type, position) ==
  /\ EffectsFlushed
  /\ Len(nodes) < MaxNodes
  /\ LET newNode == [id |-> NodeId(type, now), type |-> type, position |-> position] IN
       /\ reactFlowNodes' = Append(reactFlowNodes, newNode)
       /\ nodes' = Append(nodes, newNode)
  /\ gestureLog' = Append(gestureLog, [created |-> type, at |-> now])
  /\ lastCall' = Call("setNodes", "")
  /\ UNCHANGED <<currentDiagram, edges, metaVars, validationVars, callVars, serverVars,
                 authVars, panelVars, reactFlowEdges, syncedNodes, syncedEdges, now>>
  /\ UNCHANGED <<routerVars, scenarioStoreVars>>

\* addEdge of React Flow, as DiagramBuilder.jsx:120 calls it: an edge whose
\* connection is on the canvas already is not added
reactFlowAddEdge(newEdge, eds) ==
  IF \E i \in 1..Len(eds) : eds[i].source = newEdge.source /\ eds[i].target = newEdge.target
  THEN eds
  ELSE Append(eds, newEdge)

\* DiagramBuilder.jsx:113-122: two nodes are connected; setEdges is
\* diagramStore.js:34
onConnect(source, target) ==
  /\ EffectsFlushed
  /\ Len(edges) < MaxEdges
  /\ LET newEdge == [source |-> source, target |-> target, id |-> EdgeId(now),
                     type |-> "default", data |-> [protocol |-> "HTTP", encrypted |-> FALSE]]
     IN
       /\ reactFlowEdges' = reactFlowAddEdge(newEdge, reactFlowEdges)
       /\ edges' = Append(edges, newEdge)
  /\ gestureLog' = Append(gestureLog, [created |-> "edge", at |-> now])
  /\ lastCall' = Call("setEdges", "")
  /\ UNCHANGED <<currentDiagram, nodes, metaVars, validationVars, callVars, serverVars,
                 authVars, panelVars, reactFlowNodes, syncedNodes, syncedEdges, now>>
  /\ UNCHANGED <<routerVars, scenarioStoreVars>>

\* DiagramBuilder.jsx:80 and 215: a node is dragged; onNodesChange of
\* useNodesState applies the change to the canvas nodes
onNodesChange(i, position) ==
  /\ EffectsFlushed
  /\ i \in 1..Len(reactFlowNodes)
  /\ reactFlowNodes[i].position # position
  /\ reactFlowNodes' = [reactFlowNodes EXCEPT ![i] = Merge(@, [position |-> position])]
  /\ UNCHANGED <<diagramStoreVars, authVars, panelVars, reactFlowEdges, syncedNodes,
                 syncedEdges, now, gestureLog, lastCall>>
  /\ UNCHANGED <<routerVars, scenarioStoreVars>>

\* DiagramBuilder.jsx:87-89: the store's nodes changed
syncNodesEffect ==
  /\ nodes # syncedNodes
  /\ reactFlowNodes' = nodes
  /\ syncedNodes' = nodes
  /\ UNCHANGED <<diagramStoreVars, authVars, panelVars, reactFlowEdges, syncedEdges, now,
                 gestureLog, lastCall>>
  /\ UNCHANGED <<routerVars, scenarioStoreVars>>

\* DiagramBuilder.jsx:91-93: the store's edges changed
syncEdgesEffect ==
  /\ edges # syncedEdges
  /\ reactFlowEdges' = edges
  /\ syncedEdges' = edges
  /\ UNCHANGED <<diagramStoreVars, authVars, panelVars, reactFlowNodes, syncedNodes, now,
                 gestureLog, lastCall>>
  /\ UNCHANGED <<routerVars, scenarioStoreVars>>

\* the ids of the nodes on the canvas
CanvasNodeIds == {reactFlowNodes[i].id : i \in 1..Len(reactFlowNodes)}

\* Moving and saving: nodes are dropped, dragged and saved
NextCanvas ==
  \/ tick
  \/ \E type \in NodeTypes, position \in Positions : onDrop(type, position)
  \/ \E i \in 1..MaxNodes, position \in Positions : onNodesChange(i, position)
  \/ syncNodesEffect
  \/ EffectsFlushed /\ saveDiagram(1)
  \/ saveDiagramOk(1)
  \/ saveDiagramFail(1)

SpecCanvas == Init /\ [][NextCanvas]_vars

\* Creating: nodes are dropped at one place and edges are drawn from the node
\* dropped first, in the same millisecond or in later ones
NextCreate ==
  \/ tick
  \/ \E type \in NodeTypes : onDrop(type, [x |-> 0, y |-> 0])
  \/ \E target \in CanvasNodeIds : onConnect(reactFlowNodes[1].id, target)
  \/ syncNodesEffect
  \/ syncEdgesEffect

SpecCreate == Init /\ [][NextCreate]_vars

----------------------------------------------------------------------------
(* Two writers: this client loads diagram d1, edits it and saves it, while  *)
(* another writer changes the backend's copy of d1                          *)

\* the node the other writer adds
OtherNode == [id |-> "n3", type |-> "database"]

\* another writer's save reaches the backend: its node joins the backend's
\* copy of the diagram
otherWriter(diagramId) ==
  /\ diagramId \in DOMAIN serverCopies
  /\ diagramId \notin otherWrites
  /\ serverCopies' = [serverCopies EXCEPT ![diagramId].diagram_data.nodes = Append(@, OtherNode)]
  /\ otherWrites' = otherWrites \cup {diagramId}
  /\ UNCHANGED <<currentDiagram, graphVars, metaVars, validationVars, callVars, created,
                 submitted, scored, lastCall>>
  /\ UNCHANGED outsideDiagramStore

NextOverwrite ==
  \/ loadDiagram(1, "d1")
  \/ loadDiagramOk(1)
  \/ loadDiagramFail(1)
  \/ \E nodeId \in NodeIds : removeNode(nodeId)
  \/ otherWriter("d1")
  \/ \E c \in CallIds : saveDiagram(c)
  \/ \E c \in CallIds : saveDiagramOk(c)
  \/ \E c \in CallIds : saveDiagramFail(c)

SpecOverwrite == Init /\ [][NextOverwrite]_vars

----------------------------------------------------------------------------
(* Starting over: a diagram is edited and saved, and cleared for a new      *)
(* attempt while saves may be in flight                                     *)

NextClear ==
  \/ addNode(DroppedNode)
  \/ clearDiagram
  \/ \E c \in CallIds : saveDiagram(c)
  \/ \E c \in CallIds : saveDiagramOk(c)
  \/ \E c \in CallIds : saveDiagramFail(c)

SpecClear == Init /\ [][NextClear]_vars

----------------------------------------------------------------------------
(* The routes of App (src/unnamed/part_000).  A path is the sequence of its *)
(* segments; what App returns is the element of the route that matches the  *)
(* location, as a function of the auth store's user and isLoading.          *)

\* the paths a session visits: every route of App, with and without its
\* parameter, and a path no route names
Locations ==
  {<<>>, <<"scenarios">>, <<"scenarios", "s1">>, <<"diagram">>, <<"diagram", "d1">>,
   <<"scores">>, <<"learning">>, <<"profile">>, <<"login">>, <<"register">>, <<"settings">>}

\* a segment of a route's path that is a parameter, as :id
Param == ":"
\* the path of the route that matches whatever no other route matches
Splat == <<"*">>

\* <Component />
Element(name) == [element |-> name]
\* <Navigate to=... replace />
Navigate(to) == [element |-> "Navigate", to |-> to]
\* <Route path=... element=... />; optional: the last parameter may be missing
Route(path, optional, element) == [path |-> path, optional |-> optional, element |-> element]

\* part_000:33-37
PublicRoutes ==
  <<Route(<<"login">>, FALSE, Element("LoginPage")),
    Route(<<"register">>, FALSE, Element("RegisterPage")),
    Route(Splat, FALSE, Navigate(<<"login">>))>>

\* part_000:45-56
ProtectedRoutes ==
  <<Route(<<>>, FALSE, Element("Dashboard")),
    Route(<<"scenarios">>, FALSE, Element("ScenarioList")),
    Route(<<"scenarios", Param>>, FALSE, Element("ScenarioDetail")),
    Route(<<"diagram", Param>>, TRUE, Element("DiagramBuilder")),
    Route(<<"scores">>, FALSE, Element("ScoreHistory")),
    Route(<<"learning">>, FALSE, Element("LearningPaths")),
    Route(<<"profile">>, FALSE, Element("Profile")),
    Route(<<"login">>, FALSE, Navigate(<<>>)),
    Route(<<"register">>, FALSE, Navigate(<<>>)),
    Route(Splat, FALSE, Navigate(<<>>))>>

\* a route other than the splat matches a path segment by segment
Matches(route, path) ==
  /\ route.path # Splat
  /\ \/ Len(path) = Len(route.path)
     \/ route.optional /\ Len(path) = Len(route.path) - 1
  /\ \A i \in 1..Len(path) : route.path[i] = Param \/ route.path[i] = path[i]

\* <Routes>: the element of the route that matches the path, the splat
\* route ranking last
Routes(routes, path) ==
  LET matching == {i \in 1..Len(routes) : Matches(routes[i], path)}
      splat == CHOOSE i \in 1..Len(routes) : routes[i].path = Splat
  IN IF matching = {}
     THEN routes[splat].element
     ELSE routes[CHOOSE i \in matching : \A j \in matching : i <= j].element

\* part_000:46-52: what the routes behind login render
ProtectedViews ==
  {Element(name) : name \in {"Dashboard", "ScenarioList", "ScenarioDetail", "DiagramBuilder",
                             "ScoreHistory", "LearningPaths", "Profile"}}

\* an App that does not look at user
App_IgnoresUser ==
  IF isLoading THEN Element("LoadingSpinner") ELSE Routes(ProtectedRoutes, location)

\* part_000:27-59: what App returns
App ==
  IF isLoading
  THEN Element("LoadingSpinner")
  ELSE IF user = Null
       THEN Routes(PublicRoutes, location)
       ELSE Routes(ProtectedRoutes, location)

\* a link is followed, or the address or the history entry changes
navigate(path) ==
  /\ path # location
  /\ location' = path
  /\ UNCHANGED <<diagramStoreVars, authVars, panelVars, canvasVars, scenarioStoreVars, lastCall>>

\* part_000:36, 53-55: the effect of a rendered <Navigate replace />
redirect ==
  /\ App.element = "Navigate"
  /\ location' = App.to
  /\ UNCHANGED <<diagramStoreVars, authVars, panelVars, canvasVars, scenarioStoreVars, lastCall>>

\* the application is opened at any path, by a new or a returning user
InitRoute ==
  /\ InitDiagramStore
  /\ InitAuthStore \/ InitReturning
  /\ InitPanels
  /\ InitCanvas
  /\ InitScenarioStore
  /\ location \in Locations

\* part_000:41-44: the layout with the Navbar and the views is mounted
LayoutMounted == ~isLoading /\ user # Null

\* Routing in a session: the user moves between paths, logs in on the login
\* page and out in the Navbar, the stored token is checked when App has
\* mounted (an effect of App, so after the effect of a <Navigate /> it
\* rendered), and a request of a view may be answered with 401
NextRoute ==
  \/ \E path \in Locations : navigate(path)
  \/ redirect
  \/ App = Element("LoginPage") /\ login
  \/ loginOk("t1")
  \/ \E status \in ErrorStatuses : loginFail(status)
  \/ LayoutMounted /\ logout
  \/ App.element # "Navigate" /\ checkAuth
  \/ checkAuthOk
  \/ \E status \in ErrorStatuses : checkAuthFail(status)
  \/ \E caller \in ApiCallers : App \in ProtectedViews /\ apiRequest(caller)
  \/ \E caller \in ApiCallers : apiResponse(caller)
  \/ \E caller \in ApiCallers, status \in ErrorStatuses : apiResponseError(caller, status)

SpecRoute == InitRoute /\ [][NextRoute]_vars

----------------------------------------------------------------------------
(* The scenario store (diagramStore.js:239-430): the catalog, its filters   *)
(* and the fetches the filter actions start.  A filter action sets the      *)
(* filters and runs fetchScenarios up to its await in the same call.        *)

\* limit = 20, the page size the filter actions ask for
PageLimit == 20

\* the values the filter controls hand over; null is the choice 'all'
CategoryChoices == {NoFilter, "web", "api"}
DifficultyChoices == {NoFilter, "expert"}
SearchQueries == {"", "sql"}

\* the catalog of the backend
ServerScenarios ==
  <<[id |-> "s1", category |-> "web", difficulty |-> "beginner", title |-> "sql"],
    [id |-> "s2", category |-> "api", difficulty |-> "expert", title |-> "jwt"],
    [id |-> "s3", category |-> "web", difficulty |-> "expert", title |-> "xss"]>>

\* lines 271-279: the query of a fetch, a parameter being appended when the
\* filter is truthy
QueryOf(given, page, limit) ==
  LET truthy == {k \in {"category", "difficulty"} : given[k] # NoFilter}
                  \cup (IF given.search # "" THEN {"search"} ELSE {})
                  \cup (IF Len(given.tags) > 0 THEN {"tags"} ELSE {})
  IN [k \in {"skip", "limit"} \cup truthy |->
        CASE k = "skip" -> page * limit
          [] k = "limit" -> limit
          [] OTHER -> given[k]]

\* what GET /scenarios/ answers to a query: the scenarios of the catalog
\* that pass every filter of the query
ScenariosFor(query) ==
  SelectSeq(ServerScenarios,
            LAMBDA scenario :
              /\ "category" \in DOMAIN query => scenario.category = query.category
              /\ "difficulty" \in DOMAIN query => scenario.difficulty = query.difficulty
              /\ "search" \in DOMAIN query => scenario.title = query.search)

\* lines 265-281 with page 0, after the filters were set to newFilters: the
\* request goes out through the API client
FilterAndFetch(op, arg, newFilters) ==
  /\ Len(fetchCalls) < MaxCalls
  /\ filters' = newFilters
  /\ scenarioIsLoading' = TRUE
  /\ fetchCalls' = Append(fetchCalls,
       [IdleCall EXCEPT
          !.pc = "await",
          !.reqs = <<Intercept(Merge(Request("GET", "/scenarios/", Undefined),
                                     [params |-> QueryOf(newFilters, 0, PageLimit)]))>>])
  /\ lastCall' = Call(op, arg)
  /\ UNCHANGED <<scenarios, diagramStoreVars, authVars, panelVars, canvasVars, routerVars>>

\* lines 381-386
searchScenarios(query) ==
  FilterAndFetch("searchScenarios", query, Merge(filters, [search |-> query]))

\* lines 389-394
filterByCategory(category) ==
  FilterAndFetch("filterByCategory", "", Merge(filters, [category |-> category]))

\* lines 397-402
filterByDifficulty(difficulty) ==
  FilterAndFetch("filterByDifficulty", "", Merge(filters, [difficulty |-> difficulty]))

\* lines 405-415
clearFilters ==
  FilterAndFetch("clearFilters", "",
                 [category |-> NoFilter, difficulty |-> NoFilter, search |-> "", tags |-> <<>>])

\* lines 281-291: the response of the i-th fetch arrives; a page 0 replaces
\* the list
fetchScenariosOk(i) ==
  /\ i \in 1..Len(fetchCalls)
  /\ fetchCalls[i].pc = "await"
  /\ scenarios' = ScenariosFor(fetchCalls[i].reqs[1].params)
  /\ scenarioIsLoading' = FALSE
  /\ fetchCalls' = [fetchCalls EXCEPT ![i] =
       [Settle(@, "ok") EXCEPT !.pc = "resolved",
                               !.value = ScenariosFor(fetchCalls[i].reqs[1].params)]]
  /\ UNCHANGED <<filters, diagramStoreVars, authVars, panelVars, canvasVars, routerVars,
                 lastCall>>

\* lines 292-296: the request fails; the call resolves with []
fetchScenariosFail(i) ==
  /\ i \in 1..Len(fetchCalls)
  /\ fetchCalls[i].pc = "await"
  /\ scenarioIsLoading' = FALSE
  /\ fetchCalls' = [fetchCalls EXCEPT ![i] =
       [Settle(@, "failed") EXCEPT !.pc = "resolved", !.value = <<>>,
                                   !.toast = "Failed to fetch scenarios"]]
  /\ UNCHANGED <<scenarios, filters, diagramStoreVars, authVars, panelVars, canvasVars,
                 routerVars, lastCall>>

\* Browsing the catalog: the filters are changed while fetches are in flight
NextCatalog ==
  \/ \E query \in SearchQueries : searchScenarios(query)
  \/ \E category \in CategoryChoices : filterByCategory(category)
  \/ \E difficulty \in DifficultyChoices : filterByDifficulty(difficulty)
  \/ clearFilters
  \/ \E i \in 1..MaxCalls : fetchScenariosOk(i)
  \/ \E i \in 1..MaxCalls : fetchScenariosFail(i)

SpecCatalog == Init /\ [][NextCatalog]_vars

----------------------------------------------------------------------------
(* Claims *)

\* every edge's source and target are ids of nodes in the node list
EdgesReferenceNodes ==
  \A i \in 1..Len(edges) :
    edges[i].source \in CurrentNodeIds /\ edges[i].target \in CurrentNodeIds

(* C1: after removeNode(n) the edge list holds no edge whose source or     *)
(* target is n.                                                            *)
C1_RemoveNodeCascades ==
  lastCall.op = "removeNode" =>
    \A i \in 1..Len(edges) :
      edges[i].source # lastCall.id /\ edges[i].target # lastCall.id

\* removeNode has run on a diagram that keeps a node and an edge
C1_Witness ==
  /\ lastCall.op = "removeNode"
  /\ Len(nodes) = 1
  /\ Len(edges) = 1

(* C2, as stated: in every state reached by addNode, addEdge (endpoints    *)
(* existing), updateNode, updateEdge, removeNode and removeEdge, every     *)
(* edge's source and target are ids of nodes in the node list.             *)
C2_EdgesReferenceNodes == EdgesReferenceNodes

\* a step that changed the id of a node in place: an updateNode whose changes carry an id
ChangesNodeId ==
  /\ Len(nodes') = Len(nodes)
  /\ \E i \in 1..Len(nodes) : nodes'[i].id # nodes[i].id

\* a step that changed an endpoint of an edge in place: an updateEdge whose
\* changes carry a source or a target
ChangesEndpoint ==
  /\ Len(edges') = Len(edges)
  /\ \E i \in 1..Len(edges) :
       edges'[i].source # edges[i].source \/ edges'[i].target # edges[i].target

(* C2, amended: every step of addNode, addEdge (endpoints existing),       *)
(* removeNode, removeEdge, and of updateNode / updateEdge that does not    *)
(* change a node's id or an edge's source or target, keeps every edge's    *)
(* source and target among the ids of the nodes in the node list.          *)
C2_IntegrityPreserved ==
  [][(EdgesReferenceNodes /\ ~ChangesNodeId /\ ~ChangesEndpoint) => EdgesReferenceNodes']_vars

\* a node was updated in a diagram of two nodes and two edges, every edge
\* still joining nodes of the list
C2_Witness ==
  /\ lastCall.op = "updateNode"
  /\ Len(nodes) = 2
  /\ nodes[1].id # nodes[2].id
  /\ Len(edges) = 2
  /\ edges[1].source # edges[1].target
  /\ EdgesReferenceNodes

(* C3: after clearDiagram, and until the next store action is called,      *)
(* nodes, edges, trustBoundaries, dataFlows and securityControls read      *)
(* empty, also when a request issued before the clear completes after it.  *)
C3_ClearedStaysEmpty ==
  lastCall.op = "clearDiagram" =>
    /\ nodes = <<>>
    /\ edges = <<>>
    /\ trustBoundaries = <<>>
    /\ dataFlows = <<>>
    /\ securityControls = <<>>

\* the create requests of saveDiagram that were sent and did not fail
Creates == {c \in CallIds : /\ saveCalls[c].reqs # <<>>
                            /\ saveCalls[c].reqs[1].method = "POST"
                            /\ saveCalls[c].reqs[1].status # "failed"}

(* C4: while one diagram is edited and saved, at most one create is        *)
(* issued and at most one diagram is created on the backend, whatever the  *)
(* timing of the saveDiagram calls; a save that succeeded holds the        *)
(* diagram's id.                                                           *)
C4_OneCreatePerDiagram ==
  /\ Cardinality(Creates) <= 1
  /\ created <= 1
  /\ \A c \in CallIds : saveCalls[c].pc = "resolved" => saveCalls[c].value.id = AssignedIds[1]

(* C5: the step in which a loadDiagram call resolves installs the          *)
(* backend's copy of the requested diagram as currentDiagram, nodes,       *)
(* edges, trustBoundaries, dataFlows and securityControls, a missing       *)
(* metadata list reading empty: nothing of what was there before remains.  *)
C5_LoadReplaces ==
  [][\A c \in {1, 2} :
       (loadCalls[c].pc = "await" /\ loadCalls'[c].pc = "resolved") =>
         LET copy == serverCopies[loadCalls[c].id]
             Listed(key) == IF key \in DOMAIN copy.metadata THEN copy.metadata[key] ELSE <<>>
         IN /\ loadCalls'[c].value = copy
            /\ currentDiagram' = copy
            /\ nodes' = copy.diagram_data.nodes
            /\ edges' = copy.diagram_data.edges
            /\ trustBoundaries' = Listed("trust_boundaries")
            /\ dataFlows' = Listed("data_flows")
            /\ securityControls' = Listed("security_controls")]_vars

\* diagram A was loaded, an edge was drawn, and the store holds diagram B alone
C5_Witness ==
  /\ loadCalls[1].pc = "resolved"
  /\ loadCalls[2].pc = "resolved"
  /\ lastCall.op = "addEdge"
  /\ currentDiagram = ServerCopy("d2")
  /\ nodes = ServerCopy("d2").diagram_data.nodes
  /\ edges = <<>>
  /\ trustBoundaries = <<"vpc">>
  /\ dataFlows = <<>>
  /\ securityControls = <<>>

(* C6: a validateDiagram call made while currentDiagram is null sends no   *)
(* request and leaves validationResults and isValidating unchanged.        *)
C6_NoDiagramNoValidation ==
  [][\A c \in CallIds :
       (validateCalls[c].pc = "idle" /\ validateCalls'[c].pc # "idle" /\ currentDiagram = Null) =>
         /\ validateCalls'[c].reqs = <<>>
         /\ validateCalls'[c].pc = "resolved"
         /\ validationResults' = validationResults
         /\ isValidating' = isValidating]_vars

\* a call returned without a request while earlier results are on display
C6_Witness ==
  /\ currentDiagram = Null
  /\ validationResults # <<>>
  /\ \E c \in CallIds : validateCalls[c].pc = "resolved" /\ validateCalls[c].reqs = <<>>

\* the requests validateDiagram and submitForScoring have sent
ScoringRequests ==
  {validateCalls[1].reqs[i] : i \in 1..Len(validateCalls[1].reqs)}
    \cup {submitCalls[1].reqs[i] : i \in 1..Len(submitCalls[1].reqs)}

(* C7: validateDiagram and submitForScoring send a request only for a      *)
(* persisted diagram: every request they send carries a diagram id.        *)
C7_RequestsNeedPersistedDiagram ==
  \A req \in ScoringRequests : req.id # Undefined

(* C8: a validateDiagram call sends one request and no more; the step in   *)
(* which it is sent and the step in which it fails leave validationResults *)
(* as they were, and the failing step raises the error notification and    *)
(* sets isValidating to false.                                             *)
C8_FailedValidationKeepsResults ==
  /\ [](\A c \in CallIds : Len(validateCalls[c].reqs) <= 1)
  /\ [][\A c \in CallIds :
          /\ (validateCalls[c].pc = "idle" /\ validateCalls'[c].pc = "await") =>
               validationResults' = validationResults
          /\ (validateCalls[c].pc = "await" /\ validateCalls'[c].reqs[1].status = "failed") =>
               /\ validationResults' = validationResults
               /\ isValidating' = FALSE
               /\ validateCalls'[c].toast = "Validation failed"
               /\ validateCalls'[c].pc \in {"resolved", "rejected"}
               /\ Len(validateCalls'[c].reqs) = 1]_vars

\* a validation failed while the results of an earlier one are on display
C8_Witness ==
  /\ validationResults # <<>>
  /\ isValidating = FALSE
  /\ \E c \in CallIds : /\ validateCalls[c].reqs # <<>>
                        /\ validateCalls[c].reqs[1].status = "failed"
                        /\ validateCalls[c].toast = "Validation failed"

\* the calls of the four remote operations
RemoteCalls == {validateCalls[1], saveCalls[1], loadCalls[1], submitCalls[1]}

(* C9: every remote operation whose request failed has raised a            *)
(* notification and has rejected.                                          *)
C9_FailuresNotifyAndReject ==
  \A call \in RemoteCalls :
    (call.reqs # <<>> /\ call.reqs[Len(call.reqs)].status = "failed") =>
      /\ call.toast # "none"
      /\ call.pc = "rejected"

(* C10: submitForScoring sends the scoring request only after the submit   *)
(* request succeeded, for the same diagram id; after a failed submit       *)
(* request it sends nothing more; when both succeeded it resolves with the *)
(* score payload.                                                          *)
C10_SubmitThenScore ==
  LET call == submitCalls[1] IN
    /\ Len(call.reqs) <= 2
    /\ call.pc = "awaitSubmit" => Len(call.reqs) = 1
    /\ Len(call.reqs) >= 1 =>
         /\ call.reqs[1].url = "/diagrams/{id}/submit"
         /\ (call.reqs[1].status = "failed" => Len(call.reqs) = 1 /\ call.pc = "rejected")
    /\ Len(call.reqs) = 2 =>
         /\ call.reqs[1].status = "ok"
         /\ call.reqs[2].url = "/scoring/score"
         /\ call.reqs[2].id = call.reqs[1].id
    /\ (call.pc = "resolved" /\ call.reqs # <<>>) =>
         /\ Len(call.reqs) = 2
         /\ call.reqs[2].status = "ok"
         /\ call.value = [diagram_id |-> call.reqs[1].id, total_score |-> 80]

\* the call resolved with the score although the store's diagram changed meanwhile
C10_Witness ==
  /\ submitCalls[1].pc = "resolved"
  /\ Len(submitCalls[1].reqs) = 2
  /\ submitCalls[1].reqs[1].id = "d1"
  /\ currentDiagram # Null
  /\ IdOf(currentDiagram) = "d2"

\* the request of a call was pending and is answered with status 401 in this step
Answered401(before, after) ==
  /\ before.reqs # <<>>
  /\ before.reqs[Len(before.reqs)].status = "pending"
  /\ after.reqs[Len(after.reqs)].status = "401"

\* the session state logout leaves
LoggedOut ==
  /\ user = Null
  /\ token = NoToken
  /\ localStorage["auth-token"] = NoToken

(* C11: whenever a request made through the API client is answered with    *)
(* 401, whichever store or operation sent it, the step ends logged out     *)
(* (user null, token null, no stored token) and the error still reaches    *)
(* the caller: the promise of another store's request is rejected, and an  *)
(* operation of the auth store ends in its catch path, not its success     *)
(* path.                                                                   *)
C11_UnauthorizedLogsOut ==
  [][/\ \A caller \in ApiCallers :
          Answered401(apiCalls[caller], apiCalls'[caller]) =>
            /\ LoggedOut'
            /\ apiCalls'[caller].pc = "rejected"
     /\ \A op \in AuthOps :
          Answered401(authCalls[op], authCalls'[op]) =>
            /\ LoggedOut'
            /\ authCalls'[op].value # [success |-> TRUE]
            /\ authCalls'[op].toast \notin {"Welcome back!", "Profile updated successfully"}
            /\ ~isLoading']_vars

\* a request of the diagram store, sent with the token of a logged-in user,
\* was answered 401 and the session is gone
C11_Witness ==
  /\ apiCalls["diagramStore"].pc = "rejected"
  /\ apiCalls["diagramStore"].reqs[1].status = "401"
  /\ "Authorization" \in DOMAIN apiCalls["diagramStore"].reqs[1]
  /\ lastCall = Call("logout", "")
  /\ LoggedOut

(* C12: after logout, and until another store action is called, user is    *)
(* null, token is null and local storage holds no auth token, also when a  *)
(* request sent before the logout is answered afterwards.                  *)
C12_LogoutIsFinal == lastCall = Call("logout", "") => LoggedOut

\* the requests of all calls, as one set of <<kind, key, request>>
SentRequests ==
  {<<"auth", op, authCalls[op].reqs>> : op \in AuthOps}
    \cup {<<"api", caller, apiCalls[caller].reqs>> : caller \in ApiCallers}
    \cup {<<"axios", caller, axiosCalls[caller].reqs>> : caller \in AxiosCallers}

(* C13: a request sent while a user is logged in carries Authorization:    *)
(* Bearer <token>, the token being the item local storage holds under      *)
(* 'auth-token'; for the requests of the stores and for those a view       *)
(* component sends itself.                                                 *)
C13_RequestsCarryStoredToken ==
  [][\A before \in SentRequests, after \in SentRequests' :
       (/\ before[1] = after[1]
        /\ before[2] = after[2]
        /\ Len(after[3]) > Len(before[3])
        /\ user # Null)
       => LET request == after[3][Len(after[3])] IN
            /\ "Authorization" \in DOMAIN request
            /\ localStorage["auth-token"] \in Tokens
            /\ request.Authorization = Bearer(localStorage["auth-token"])]_vars

(* C14: no remote operation is retried: a call of validateDiagram,         *)
(* saveDiagram or loadDiagram has sent at most one request, a call of      *)
(* submitForScoring at most two, a call of login, register, checkAuth or   *)
(* updateProfile at most one; and a call that has ended, in success or in  *)
(* failure, has no request in flight.                                      *)
C14_NoRetry ==
  LET Ended(call) == call.pc \in {"resolved", "rejected"}
      NonePending(call) == \A i \in 1..Len(call.reqs) : call.reqs[i].status # "pending"
  IN
    /\ \A call \in {validateCalls[1], saveCalls[1], loadCalls[1]} :
         /\ Len(call.reqs) <= 1
         /\ Ended(call) => NonePending(call)
    /\ Len(submitCalls[1].reqs) <= 2
    /\ Ended(submitCalls[1]) => NonePending(submitCalls[1])
    /\ \A op \in AuthOps :
         /\ Len(authCalls[op].reqs) <= 1
         /\ Ended(authCalls[op]) => NonePending(authCalls[op])

\* the single request of a save, a load and a validation failed, and so did
\* the second request of a submit
C14_Witness ==
  /\ saveCalls[1].pc = "rejected"
  /\ Len(saveCalls[1].reqs) = 1
  /\ loadCalls[1].pc = "rejected"
  /\ validateCalls[1].toast = "Validation failed"
  /\ submitCalls[1].pc = "rejected"
  /\ Len(submitCalls[1].reqs) = 2

\* after has every key of before and of changes, with the value of changes
\* where changes has the key and the value of before elsewhere
ShallowMerged(before, after, changes) ==
  /\ DOMAIN after = DOMAIN before \cup DOMAIN changes
  /\ \A k \in DOMAIN changes : after[k] = changes[k]
  /\ \A k \in DOMAIN before \ DOMAIN changes : after[k] = before[k]

\* what a step did to a collection when it updated the entities with this id
UpdatedIn(before, after, id, changes) ==
  /\ Len(after) = Len(before)
  /\ \A i \in 1..Len(before) :
       IF before[i].id = id
       THEN ShallowMerged(before[i], after[i], changes)
       ELSE after[i] = before[i]
  /\ (\A i \in 1..Len(before) : before[i].id # id) => after = before

(* C15: a step of updateNode(id, changes) shallow-merges the changes into  *)
(* the node whose id matches and leaves every other node, the length and   *)
(* the order of the node list, and the edge list unchanged; when no node   *)
(* has the id the list is unchanged.  The same for updateEdge and the edge *)
(* list.                                                                   *)
C15_UpdateMergesInPlace ==
  [][/\ \A nodeId \in NodeIds, updates \in NodeUpdates :
          (lastCall' = Call("updateNode", nodeId) /\ updateNode(nodeId, updates)) =>
            UpdatedIn(nodes, nodes', nodeId, updates) /\ edges' = edges
     /\ \A edgeId \in EdgeIds, updates \in EdgeUpdates :
          (lastCall' = Call("updateEdge", edgeId) /\ updateEdge(edgeId, updates)) =>
            UpdatedIn(edges, edges', edgeId, updates) /\ nodes' = nodes]_vars

\* updateNode was called for the first of two nodes of different ids and
\* types, with two edges drawn
C15_Witness ==
  /\ lastCall = Call("updateNode", "n1")
  /\ Len(nodes) = 2
  /\ nodes[1] = [id |-> "n1", type |-> "database"]
  /\ nodes[2] = [id |-> "n2", type |-> "server"]
  /\ Len(edges) = 2

\* the place of a severity in the order error, warning, info
SeverityRank(severity) ==
  CASE severity = "error" -> 1
    [] severity = "warning" -> 2
    [] severity = "info" -> 3

\* groups holds every result of the list once, under its category or under
\* 'other', and each group runs from errors over warnings to infos
GroupedAndOrdered(results, groups) ==
  /\ \A i \in 1..Len(results) :
       LET own == IF "category" \in DOMAIN results[i] THEN results[i].category ELSE "other" IN
         /\ own \in DOMAIN groups
         /\ Cardinality({j \in 1..Len(groups[own]) : groups[own][j] = results[i]}) = 1
         /\ \A category \in DOMAIN groups \ {own} :
              \A j \in 1..Len(groups[category]) : groups[category][j] # results[i]
  /\ \A category \in DOMAIN groups :
       \A j, k \in 1..Len(groups[category]) :
         j < k => SeverityRank(groups[category][j].severity)
                    <= SeverityRank(groups[category][k].severity)

(* C16: what a panel shows grouped is a grouping of the list of validation *)
(* results it was computed from: every result is in exactly one group, its *)
(* category or 'other' when it has none, and inside each group the errors  *)
(* come before the warnings, which come before the infos; in              *)
(* ValidationPanel and in EnhancedValidationPanel.                         *)
C16_GroupedBySeverity ==
  /\ GroupedAndOrdered(enhancedFrom, enhancedGrouped)
  /\ GroupedAndOrdered(groupedFrom, groupedResults)

(* C17: a checkAuth that found no stored token ends having sent no request *)
(* and with isLoading false; one that found a stored token ends having     *)
(* asked the backend to verify it, with the user set and the token equal   *)
(* to the stored one when the backend verified it, and with user null,     *)
(* token null and the stored token removed when the verification failed.   *)
C17_CheckAuthVerifies ==
  [][LET before == authCalls["checkAuth"]
         after == authCalls'["checkAuth"]
     IN (before.pc # "resolved" /\ after.pc = "resolved") =>
          /\ ~isLoading'
          /\ after.id = NoToken => after.reqs = <<>>
          /\ after.id # NoToken =>
               /\ Len(after.reqs) = 1
               /\ after.reqs[1].url = "/auth/verify"
               /\ after.reqs[1].status = "ok" => user' # Null /\ token' = after.id
               /\ after.reqs[1].status # "ok" => LoggedOut']_vars

(* C18: when the submit request of a submitForScoring call succeeded and   *)
(* its scoring request failed, the call is rejected, the backend holds the *)
(* diagram as submitted and not scored, and the call has sent these two    *)
(* requests and no other; and no step of a submitForScoring call changes   *)
(* the diagram, the graph, the metadata or the validation state of the     *)
(* store, so nothing in the client records the submission.                 *)
C18_SubmitNotTransactional ==
  /\ [](LET call == submitCalls[1] IN
          (Len(call.reqs) >= 2 /\ call.reqs[2].status = "failed") =>
            /\ call.pc = "rejected"
            /\ Len(call.reqs) = 2
            /\ call.reqs[1].status = "ok"
            /\ call.reqs[1].id \in submitted
            /\ call.reqs[1].id \notin scored)
  /\ [][submitCalls' # submitCalls =>
          UNCHANGED <<currentDiagram, graphVars, metaVars, validationVars>>]_vars

\* a stored diagram was submitted, its scoring failed, and it is still the
\* current diagram of the store
C18_Witness ==
  /\ submitCalls[1].pc = "rejected"
  /\ Len(submitCalls[1].reqs) = 2
  /\ submitCalls[1].reqs[1].id = "d1"
  /\ "d1" \in submitted
  /\ "d1" \notin scored
  /\ currentDiagram = ServerCopy("d1")

\* a node that is in both lists, at the same place of the list, has the same
\* position in both
SamePositions(shown, other) ==
  \A i \in 1..Len(shown) :
    (i <= Len(other) /\ shown[i].id = other[i].id) => shown[i].position = other[i].position

(* C19: the positions on the canvas reach the store: a saveDiagram call    *)
(* sends every node at the position the canvas shows it at; and a step     *)
(* that copies the store's nodes onto the canvas leaves every node of the  *)
(* canvas at the position it had.                                          *)
C19_CanvasPositionsReachStore ==
  [][/\ (saveCalls[1].pc = "idle" /\ saveCalls'[1].pc = "await") =>
          SamePositions(reactFlowNodes, saveCalls'[1].value.diagram_data.nodes)
     /\ syncedNodes' # syncedNodes => SamePositions(reactFlowNodes, reactFlowNodes')]_vars

\* no two entities of the list share an id
IdsUnique(list) == \A i, j \in 1..Len(list) : i # j => list[i].id # list[j].id

(* C20, as claimed: after any drop and connect gestures, also gestures at  *)
(* the same timestamp, no two nodes share an id and no two edges share an  *)
(* id.                                                                     *)
C20_IdsUnique == IdsUnique(nodes) /\ IdsUnique(edges)

\* no two gestures created the same kind of thing (a node of one type, or an
\* edge) at the same timestamp
DistinctCreations ==
  \A i, j \in 1..Len(gestureLog) : i # j => gestureLog[i] # gestureLog[j]

(* C20, amended: after drop and connect gestures of which no two dropped a *)
(* node of the same type at the same timestamp and no two drew an edge at  *)
(* the same timestamp, no two nodes share an id and no two edges share an  *)
(* id.                                                                     *)
C20_IdsUniqueAcrossTimestamps == DistinctCreations => IdsUnique(nodes) /\ IdsUnique(edges)

\* two nodes of different types were dropped in the same millisecond, and
\* two edges were drawn in different milliseconds
C20_Witness ==
  /\ Len(nodes) = 2
  /\ nodes[1].id[2] = nodes[2].id[2]
  /\ nodes[1].type # nodes[2].type
  /\ Len(edges) = 2
  /\ edges[1].id[2] < edges[2].id[2]
  /\ DistinctCreations

HoldsOtherNode(diagramData) ==
  \E i \in 1..Len(diagramData.nodes) : diagramData.nodes[i] = OtherNode

(* C22: a save request carries the method, the url, the diagram's id and   *)
(* the client's graph and metadata, and no version or concurrency token;   *)
(* when an update is answered, the call resolves with the success notice   *)
(* and the backend's copy of that diagram is the graph the client sent,    *)
(* whatever the copy held before: a node another writer added after the    *)
(* client loaded the diagram is gone from it.                              *)
C22_SaveOverwritesRemoteChange ==
  [][\A c \in CallIds :
       /\ (saveCalls[c].pc = "idle" /\ saveCalls'[c].pc = "await") =>
            /\ DOMAIN saveCalls'[c].reqs[1] = {"method", "url", "id", "status"}
            /\ DOMAIN saveCalls'[c].value = {"diagram_data", "metadata"}
            /\ saveCalls'[c].value = DiagramData
       /\ (saveCalls[c].pc = "await" /\ saveCalls'[c].pc = "resolved"
             /\ saveCalls[c].reqs[1].method = "PUT") =>
            LET diagramId == saveCalls[c].reqs[1].id IN
              /\ saveCalls'[c].toast = "Diagram saved successfully"
              /\ serverCopies'[diagramId].diagram_data = saveCalls[c].value.diagram_data
              /\ ~HoldsOtherNode(saveCalls[c].value.diagram_data) =>
                   ~HoldsOtherNode(serverCopies'[diagramId].diagram_data)]_vars

\* the client loaded d1 as it was, another writer then changed the
\* backend's copy, and a save of the client was answered: the backend's copy
\* has lost the other writer's node
C22_Witness ==
  /\ loadCalls[1].pc = "resolved"
  /\ loadCalls[1].value = ServerCopy("d1")
  /\ "d1" \in otherWrites
  /\ \E c \in CallIds :
       /\ saveCalls[c].pc = "resolved"
       /\ saveCalls[c].reqs[1] = [method |-> "PUT", url |-> "/diagrams/{id}", id |-> "d1",
                                  status |-> "ok"]
       /\ saveCalls[c].toast = "Diagram saved successfully"
  /\ ~HoldsOtherNode(serverCopies["d1"].diagram_data)

\* after holds the entries of before at the places in kept, in the order of
\* before, and nothing else
KeepsInOrder(before, after, kept) ==
  /\ Len(after) = Cardinality(kept)
  /\ \A i \in kept : after[Cardinality({j \in kept : j <= i})] = before[i]

(* C23: a step of removeEdge(id) leaves the node list as it was and keeps, *)
(* in their order, exactly the edges whose id is not id; a step of         *)
(* removeNode(id) keeps, in their order, exactly the nodes whose id is not *)
(* id and exactly the edges whose source and target are not id; neither    *)
(* changes the current diagram, the metadata or the validation state.      *)
C23_RemovalTouchesNothingElse ==
  [][/\ \A edgeId \in EdgeIds :
          lastCall' = Call("removeEdge", edgeId) =>
            /\ nodes' = nodes
            /\ KeepsInOrder(edges, edges', {i \in 1..Len(edges) : edges[i].id # edgeId})
            /\ UNCHANGED <<currentDiagram, metaVars, validationVars>>
     /\ \A nodeId \in NodeIds :
          lastCall' = Call("removeNode", nodeId) =>
            /\ KeepsInOrder(nodes, nodes', {i \in 1..Len(nodes) : nodes[i].id # nodeId})
            /\ KeepsInOrder(edges, edges',
                            {i \in 1..Len(edges) :
                               edges[i].source # nodeId /\ edges[i].target # nodeId})
            /\ UNCHANGED <<currentDiagram, metaVars, validationVars>>]_vars

\* removeNode("n1") has left the other node, a database, and the edge that
\* does not touch n1
C23_Witness ==
  /\ lastCall = Call("removeNode", "n1")
  /\ nodes = <<[id |-> "n2", type |-> "database"]>>
  /\ edges = <<[id |-> "e2", source |-> "n2", target |-> "n2"]>>

(* C24: whenever validationResults is non-empty, a diagram is loaded and   *)
(* the results are those the validator returned for it: the validation     *)
(* request that was answered, the only one of the session, carried the id  *)
(* of the current diagram.                                                 *)
C24_ResultsOfCurrentDiagram ==
  validationResults # <<>> =>
    /\ currentDiagram # Null
    /\ validateCalls[1].reqs # <<>>
    /\ validateCalls[1].reqs[1].status = "ok"
    /\ validateCalls[1].reqs[1].id = IdOf(currentDiagram)

(* C25: a saveDiagram called when clearDiagram was the store action called *)
(* last sends a create (POST /diagrams/) and not an update of a diagram    *)
(* saved before, also when a save that was in flight at the clear has      *)
(* completed since.                                                        *)
C25_SaveAfterClearCreates ==
  [][\A c \in CallIds :
       (lastCall = Call("clearDiagram", "") /\ saveCalls[c].pc = "idle"
          /\ saveCalls'[c].pc = "await") =>
         saveCalls'[c].reqs[1].method = "POST"]_vars

(* C26: once two loadDiagram calls have both completed, and no other store *)
(* action was called after the second request, the store holds the diagram *)
(* that was requested last, and currentDiagram, nodes and edges come from  *)
(* that one diagram, whatever the order in which the responses arrived.    *)
C26_LastRequestedLoadWins ==
  (/\ loadCalls[1].pc = "resolved"
   /\ loadCalls[2].pc = "resolved"
   /\ lastCall.op = "loadDiagram") =>
    /\ currentDiagram = serverCopies[lastCall.id]
    /\ nodes = currentDiagram.diagram_data.nodes
    /\ edges = currentDiagram.diagram_data.edges

(* C27: in every reachable state the token of the auth store equals the    *)
(* item local storage holds under 'auth-token': both absent, or both the   *)
(* same token.                                                             *)
C27_TokenMatchesStorage == token = localStorage["auth-token"]

(* C28: isValidating is true exactly while the request of at least one     *)
(* validateDiagram call is in flight, also when calls overlap.             *)
C28_ValidatingWhileInFlight ==
  isValidating <=> \E c \in CallIds : validateCalls[c].pc = "await"

\* the paths of the login and the register page
PublicLocations == {<<"login">>, <<"register">>}

(* C29, as claimed: App renders a view behind login only while user is     *)
(* non-null; when user is null every path other than /login and /register *)
(* redirects to /login; when user is non-null /login and /register         *)
(* redirect to /.                                                          *)
C29_RoutesGuardedByUser ==
  /\ App \in ProtectedViews => user # Null
  /\ (user = Null /\ location \notin PublicLocations) => App = Navigate(<<"login">>)
  /\ (user # Null /\ location \in PublicLocations) => App = Navigate(<<>>)

(* C29, amended: App renders a view behind login only while user is        *)
(* non-null, so none after a logout has set user to null; while isLoading  *)
(* is false, every path other than /login and /register redirects to       *)
(* /login when user is null, and /login and /register redirect to / when   *)
(* user is non-null; while isLoading is true App renders the loading       *)
(* spinner at every path and redirects nowhere.                            *)
C29_RoutesGuardedOnceLoaded ==
  /\ App \in ProtectedViews => user # Null
  /\ lastCall = Call("logout", "") /\ user = Null => App \notin ProtectedViews
  /\ (~isLoading /\ user = Null /\ location \notin PublicLocations) =>
       App = Navigate(<<"login">>)
  /\ (~isLoading /\ user # Null /\ location \in PublicLocations) => App = Navigate(<<>>)
  /\ isLoading => App = Element("LoadingSpinner")

\* a user was logged out by a 401 while at /scores and is sent to /login
C29_Witness ==
  /\ lastCall = Call("logout", "")
  /\ apiCalls["diagramStore"].pc = "rejected"
  /\ user = Null
  /\ ~isLoading
  /\ location = <<"scores">>
  /\ App = Navigate(<<"login">>)

(* C30: once every fetch the filter actions started has completed, the     *)
(* one started last with success, the scenarios list is the response to    *)
(* that last request, the one made with the filters now in the store; and  *)
(* isLoading of the scenario store is false only when no fetch is          *)
(* outstanding.                                                            *)
C30_LatestFiltersWin ==
  /\ (/\ fetchCalls # <<>>
      /\ \A i \in 1..Len(fetchCalls) : fetchCalls[i].pc # "await"
      /\ fetchCalls[Len(fetchCalls)].reqs[1].status = "ok") =>
       /\ fetchCalls[Len(fetchCalls)].reqs[1].params = QueryOf(filters, 0, PageLimit)
       /\ scenarios = fetchCalls[Len(fetchCalls)].value
  /\ ~scenarioIsLoading => \A i \in 1..Len(fetchCalls) : fetchCalls[i].pc # "await"

====
